---- MODULE Spec2Model ----
(***************************************************************************)
(* Document ingestion and retrieval pipeline of grow_need:                 *)
(*   src/database/setup-vector-database.py  EnhancedVectorDatabase         *)
(*   src/database/file-processor.py         AdvancedFileProcessor          *)
(*                                                                         *)
(* A text is modelled as the sequence of its whitespace-delimited words    *)
(* (what str.split() returns); the text itself is those words joined by    *)
(* single blanks, so a text is empty after strip() exactly when it has no  *)
(* words.                                                                  *)
(***************************************************************************)
EXTENDS Integers, Sequences, FiniteSets, TLC

VARIABLES
    ck,             \* one call of chunk_text: its arguments and its outcome
    fb,             \* one call of create_fallback_embedding: arguments, loop state
    dc,             \* one call of detect_content_type: arguments and outcome
    rl,             \* the RateLimiter, its clock and its caller
    dir,            \* the process_directory call under way
    web,            \* the /api/upload request under way
    rs              \* the restore_database call under way and the database directory

sideVars == <<dc, rl, dir, web, rs>>

Min(a, b) == IF a < b THEN a ELSE b

Range(s) == {s[i] : i \in 1..Len(s)}

\* Python's s[i:j] for 0 <= i and 0 <= j (0-based, end exclusive, clipped).
Slice(s, i, j) == SubSeq(s, i + 1, Min(j, Len(s)))

\* ------------------------------------------------------------------------
\* Bounds of the model.
MaxWords == 4           \* longest word sequence handed to chunk_text alone
MaxChunkSize == 3       \* largest chunk_size / chunk_overlap tried alone
MaxDim == 10            \* largest dim handed to create_fallback_embedding alone
MaxClassifyWords == 2   \* longest text handed to detect_content_type alone
MaxRequests == 4        \* is_allowed calls made on the rate limiter
MaxTime == 5            \* last tick of the rate limiter's clock
MaxCalls == 1           \* add_document calls a request thread makes in one run
MaxFiles == 1           \* process_file calls a thread makes in one run
MaxResults == 2         \* largest n_results of a search

\* ------------------------------------------------------------------------
\* DatabaseConfig defaults (setup-vector-database.py:45-46) and the default
\* dim of create_fallback_embedding (line 133).
DefaultChunkSize == 1000
DefaultChunkOverlap == 200
FallbackDim == 384

\* ------------------------------------------------------------------------
\* chunk_text (setup-vector-database.py:152-163)

\* range(0, n, step): the start indices, in order.  Python raises ValueError
\* for step = 0 and yields nothing for step < 0.
RangeStarts(n, step) ==
    IF step <= 0 THEN <<>>
    ELSE [k \in 1..((n + step - 1) \div step) |-> (k - 1) * step]

\* A faulty stride: the overlap added to the chunk size instead of taken
\* from it.
ChunkStride_added(chunk_size, chunk_overlap) == chunk_size + chunk_overlap

\* range(0, len(words), self.config.chunk_size - self.config.chunk_overlap)
\* A faulty stride: the loop advances by the overlap.
ChunkStride_overlap(chunk_size, chunk_overlap) == chunk_overlap

ChunkStride(chunk_size, chunk_overlap) == chunk_size - chunk_overlap

ChunkTextRaises(chunk_size, chunk_overlap) == ChunkStride(chunk_size, chunk_overlap) = 0

\* A chunk is " ".join(chunk_words); it is kept when chunk.strip() is
\* non-empty, i.e. when it has at least one word.
chunk_text(words, chunk_size, chunk_overlap) ==
    LET starts == RangeStarts(Len(words), ChunkStride(chunk_size, chunk_overlap))
        slices == [k \in 1..Len(starts) |-> Slice(words, starts[k], starts[k] + chunk_size)]
    IN  SelectSeq(slices, LAMBDA chunk : Len(chunk) > 0)

md5(text) ==
    CASE text = <<>> -> <<212, 29, 140, 217, 143, 0, 178, 4, 233, 128, 9, 152, 236, 248, 66, 126>>
      [] text = <<"4th">> -> <<83, 72, 16, 52, 60, 71, 243, 196, 174, 25, 105, 191, 241, 212, 165, 188>>
      [] text = <<"Grade">> -> <<75, 59, 157, 184, 201, 120, 68, 104, 9, 74, 205, 224, 248, 191, 112, 113>>
      [] text = <<"Lesson">> -> <<200, 143, 77, 131, 103, 84, 90, 106, 101, 148, 41, 236, 131, 21, 205, 140>>
      [] text = <<"Mathematics">> -> <<84, 11, 33, 236, 219, 39, 111, 80, 135, 238, 88, 92, 237, 214, 213, 208>>
      [] text = <<"Notes">> -> <<244, 198, 248, 81, 176, 13, 85, 24, 191, 136, 136, 21, 222, 39, 154, 186>>
      [] text = <<"Plan">> -> <<11, 108, 189, 247, 173, 41, 40, 7, 143, 22, 0, 163, 232, 151, 148, 133>>
      [] text = <<"a">> -> <<12, 193, 117, 185, 192, 241, 182, 168, 49, 195, 153, 226, 105, 119, 38, 97>>
      [] text = <<"and">> -> <<190, 93, 93, 55, 84, 45, 117, 249, 58, 135, 9, 68, 89, 247, 102, 120>>
      [] text = <<"division">> -> <<80, 201, 181, 231, 207, 58, 115, 30, 163, 28, 67, 249, 161, 76, 120, 27>>
      [] text = <<"fractions">> -> <<128, 153, 19, 123, 134, 162, 245, 52, 195, 196, 247, 144, 59, 228, 49, 248>>
      [] text = <<"on">> -> <<237, 43, 92, 1, 57, 206, 200, 173, 40, 115, 130, 157, 193, 17, 125, 80>>
      [] text = <<"null", "...">> -> <<11, 190, 83, 15, 38, 3, 75, 251, 195, 129, 37, 40, 237, 203, 167, 40>>
      [] text = <<"4th", "Grade">> -> <<134, 0, 1, 235, 137, 243, 211, 253, 166, 56, 92, 54, 72, 184, 158, 212>>
      [] text = <<"Grade", "Mathematics">> -> <<64, 121, 118, 148, 157, 205, 136, 130, 139, 35, 84, 184, 254, 145, 239, 92>>
      [] text = <<"Lesson", "Plan">> -> <<123, 30, 124, 124, 86, 231, 75, 231, 65, 126, 130, 201, 122, 11, 125, 83>>
      [] text = <<"Mathematics", "fractions">> -> <<243, 63, 109, 14, 101, 37, 207, 249, 24, 186, 119, 54, 54, 238, 144, 215>>
      [] text = <<"Notes", "on">> -> <<157, 186, 250, 23, 192, 50, 161, 177, 123, 140, 198, 233, 138, 129, 126, 237>>
      [] text = <<"Plan", "4th">> -> <<156, 155, 2, 219, 40, 181, 182, 108, 201, 132, 253, 8, 169, 88, 181, 119>>
      [] text = <<"and", "division">> -> <<64, 34, 13, 102, 194, 188, 47, 82, 96, 28, 146, 247, 191, 155, 75, 182>>
      [] text = <<"fractions", "and">> -> <<187, 52, 24, 80, 45, 90, 245, 68, 54, 54, 106, 32, 33, 169, 174, 87>>
      [] text = <<"on", "fractions">> -> <<236, 101, 97, 89, 87, 167, 40, 100, 246, 165, 204, 199, 236, 227, 113, 186>>
      [] text = <<"4th", "Grade", "Mathematics">> -> <<88, 81, 2, 6, 126, 88, 46, 94, 121, 3, 84, 94, 249, 255, 80, 3>>
      [] text = <<"Grade", "Mathematics", "fractions">> -> <<251, 55, 194, 8, 172, 236, 17, 187, 63, 200, 43, 41, 155, 167, 188, 216>>
      [] text = <<"Lesson", "Plan", "4th">> -> <<176, 212, 59, 0, 163, 59, 153, 165, 29, 215, 76, 132, 91, 92, 177, 247>>
      [] text = <<"Notes", "on", "fractions">> -> <<219, 188, 178, 68, 248, 113, 31, 89, 18, 175, 77, 165, 156, 254, 24, 33>>
      [] text = <<"Plan", "4th", "Grade">> -> <<117, 1, 110, 109, 248, 37, 233, 63, 50, 178, 161, 170, 106, 204, 24, 47>>
      [] text = <<"fractions", "and", "division">> -> <<174, 53, 109, 123, 43, 190, 93, 244, 238, 193, 70, 217, 91, 18, 133, 223>>
      [] text = <<"on", "fractions", "and">> -> <<187, 191, 244, 146, 174, 99, 74, 33, 28, 98, 101, 152, 88, 45, 21, 109>>
      [] text = <<"4th", "Grade", "Mathematics", "fractions">> -> <<173, 26, 134, 176, 84, 94, 42, 222, 243, 154, 29, 98, 252, 249, 52, 20>>
      [] text = <<"Lesson", "Plan", "4th", "Grade">> -> <<89, 95, 184, 241, 159, 107, 5, 187, 212, 102, 194, 235, 44, 226, 223, 232>>
      [] text = <<"Notes", "on", "fractions", "and">> -> <<127, 178, 206, 140, 154, 19, 168, 232, 83, 104, 255, 42, 177, 235, 246, 232>>
      [] text = <<"Plan", "4th", "Grade", "Mathematics">> -> <<161, 74, 184, 171, 201, 154, 84, 49, 56, 51, 224, 210, 53, 156, 0, 118>>
      [] text = <<"on", "fractions", "and", "division">> -> <<162, 113, 105, 30, 127, 217, 85, 244, 255, 20, 62, 23, 97, 244, 137, 12>>
      [] text = <<"Lesson", "Plan", "4th", "Grade", "Mathematics">> -> <<54, 135, 188, 95, 100, 115, 193, 47, 154, 67, 144, 27, 58, 29, 191, 46>>
      [] text = <<"Notes", "on", "fractions", "and", "division">> -> <<175, 193, 83, 27, 115, 17, 146, 56, 152, 145, 76, 58, 164, 172, 100, 136>>
      [] text = <<"Plan", "4th", "Grade", "Mathematics", "fractions">> -> <<83, 224, 174, 1, 82, 231, 189, 195, 136, 158, 84, 160, 17, 99, 45, 175>>
      [] text = <<"Lesson", "Plan", "4th", "Grade", "Mathematics", "fractions">> -> <<136, 250, 169, 165, 217, 203, 34, 99, 1, 16, 74, 181, 38, 174, 39, 214>>

\* ------------------------------------------------------------------------
\* create_fallback_embedding (setup-vector-database.py:133-150)
\*
\* A value int.from_bytes(chunk, 'big') / 2**32 is kept as its four
\* base-256 digits <<b0, b1, b2, b3>>: the number (b0*2^24 + b1*2^16 +
\* b2*2^8 + b3) / 2^32.

\* for i in range(0, len(hash_bytes), 4): chunk = hash_bytes[i:i+4];
\* if len(chunk) == 4: embedding.append(value)
HashValues(hash_bytes) ==
    LET starts == RangeStarts(Len(hash_bytes), 4)
        pieces == [k \in 1..Len(starts) |-> Slice(hash_bytes, starts[k], starts[k] + 4)]
    IN  SelectSeq(pieces, LAMBDA chunk : Len(chunk) = 4)

\* while len(embedding) < dim  (line 147)
PadGuard(embedding, dim) == Len(embedding) < dim

\* A faulty padding: the list is extended by its last entries.
PadStep_tail(embedding, dim) ==
    embedding \o SubSeq(embedding,
                        Len(embedding) - Min(Len(embedding), dim - Len(embedding)) + 1,
                        Len(embedding))

\* embedding.extend(embedding[:min(len(embedding), dim - len(embedding))])
PadStep(embedding, dim) ==
    embedding \o Slice(embedding, 0, Min(Len(embedding), dim - Len(embedding)))

\* A faulty return: the padded list as it is.
Truncate_skipped(embedding, dim) == embedding

\* return embedding[:dim]
Truncate(embedding, dim) == Slice(embedding, 0, dim)

RECURSIVE PadLoop(_, _)
PadLoop(embedding, dim) ==
    IF PadGuard(embedding, dim) THEN PadLoop(PadStep(embedding, dim), dim) ELSE embedding

create_fallback_embedding(text, dim) == Truncate(PadLoop(HashValues(md5(text)), dim), dim)

\* ------------------------------------------------------------------------
\* Python values shared by the pipeline.

NoneStr == ""                       \* None / "" : both falsy where tested
EmptyDict == [k \in {} |-> ""]      \* {} ; a dict is a function on its keys
NoDocId == <<>>                     \* document_id = None

\* A faulty merge: the keys d already has keep their values.
DictUpdate_kept(d, e) == d @@ e

\* A non-empty dict in the place of a collection name: the model keeps of it
\* that it is a dict, which is truthy and cannot be a key of a dict.
DictObject == "<dict>"
AsName(d) == IF d = EmptyDict THEN NoneStr ELSE DictObject

\* d.update(e) / {**d, **e}: e wins on every key both have.
DictUpdate(d, e) == e @@ d

\* An exception: its class and the words of str(e).
NoExc == [type |-> "", msg |-> <<>>]
Exc(type, msg) == [type |-> type, msg |-> msg]

\* str.lower() on the words and suffixes the model uses.
Lower(w) ==
    CASE w = "Lesson" -> "lesson"
      [] w = "Plan" -> "plan"
      [] w = "Grade" -> "grade"
      [] w = "Mathematics" -> "mathematics"
      [] w = "Notes" -> "notes"
      [] w = ".TXT" -> ".txt"
      [] w = "Notes2.TXT" -> "notes2.txt"
      [] OTHER -> w

LowerText(words) == [i \in 1..Len(words) |-> Lower(words[i])]

\* k in w for two single words: equal, or k a proper substring of w.
InfixPairs == {<<"math", "mathematics">>}
Infix(k, w) == k = w \/ <<k, w>> \in InfixPairs

\* phrase in text (Python's substring test), phrase and text as word
\* sequences: the phrase's words sit in consecutive words of the text.
Contains(text, phrase) ==
    \E i \in 1..(Len(text) - Len(phrase) + 1) :
        \A j \in 1..Len(phrase) : Infix(phrase[j], text[i + j - 1])

\* any(word in text for word in keywords)
AnyIn(text, keywords) == \E n \in 1..Len(keywords) : Contains(text, keywords[n])

\* ------------------------------------------------------------------------
\* The files of the upload area (pathlib.Path objects).

Paths == {"lesson.txt", "notes.txt", "Notes2.TXT", "blank.txt",
          "virus.exe", "ghost.txt", "broken.pdf", "empty.yaml"}

\* Path.suffix
Suffix(path) ==
    CASE path = "Notes2.TXT" -> ".TXT"
      [] path = "virus.exe" -> ".exe"
      [] path = "broken.pdf" -> ".pdf"
      [] path = "empty.yaml" -> ".yaml"
      [] OTHER -> ".txt"

\* The visible words of a file's bytes.
FileWords(path) ==
    CASE path = "lesson.txt" -> <<"Lesson", "Plan", "4th", "Grade", "Mathematics", "fractions">>
      [] path = "notes.txt" -> <<"Notes", "on", "fractions">>
      [] path = "Notes2.TXT" -> <<"Notes", "on", "fractions", "and", "division">>
      [] path = "ghost.txt" -> <<"Notes", "on", "fractions">>
      [] path = "virus.exe" -> <<"MZ">>
      [] OTHER -> <<>>

\* Files whose bytes the format's parser rejects.
Malformed(path) == path = "broken.pdf"

\* The words of the file name that the classifier can find in it.
NameWords(path) ==
    CASE path = "lesson.txt" -> <<"lesson">>
      [] path = "Notes2.TXT" -> <<"notes2">>
      [] path = "broken.pdf" -> <<"broken">>
      [] path = "empty.yaml" -> <<"empty">>
      [] path = "curriculum.txt" -> <<"curriculum">>
      [] OTHER -> <<"notes">>

\* ------------------------------------------------------------------------
\* AdvancedFileProcessor (file-processor.py)

SUPPORTED_FORMATS == {".pdf", ".docx", ".doc", ".txt", ".md", ".html",
                      ".csv", ".json", ".yaml", ".yml"}

\* get_file_info (90-101) with calculate_file_hash (103-109): the SHA-256
\* of the bytes is kept as the bytes' content itself.
get_file_info(path) ==
    ("filename" :> path) @@
    ("file_extension" :> Lower(Suffix(path))) @@
    ("file_size" :> Len(FileWords(path))) @@
    ("created_at" :> 0) @@
    ("modified_at" :> 0) @@
    ("file_hash" :> <<"sha256", FileWords(path)>>) @@
    ("mime_type" :> CASE Lower(Suffix(path)) = ".pdf" -> "application/pdf"
                       [] Lower(Suffix(path)) = ".yaml" -> "None"
                       [] OTHER -> "text/plain")

\* extract_text (208-229) and the extractors it dispatches to (111-206):
\* [exc, text].  The parsers of the binary and structured formats raise on
\* bytes they cannot read; every extractor logs and re-raises.
extract_text(path) ==
    LET extension == Lower(Suffix(path))
        words == FileWords(path)
        ok(text) == [exc |-> NoExc, text |-> text]
        fail(type) == [exc |-> Exc(type, <<"cannot read", path>>), text |-> <<>>]
    IN  CASE extension \in {".pdf", ".docx", ".doc"} ->
                IF Malformed(path) THEN fail("ParserError") ELSE ok(words)
          [] extension \in {".txt", ".md", ".html"} -> ok(words)
          [] extension = ".csv" ->
                IF Malformed(path) \/ words = <<>> THEN fail("EmptyDataError")
                ELSE ok(<<"CSV", "Data", "with", "Columns:">> \o words)
          [] extension = ".json" ->
                IF Malformed(path) \/ words = <<>> THEN fail("JSONDecodeError") ELSE ok(words)
          [] extension \in {".yaml", ".yml"} ->
                IF Malformed(path) THEN fail("YAMLError")
                ELSE IF words = <<>> THEN ok(<<"null", "...">>) ELSE ok(words)
          [] OTHER -> [exc |-> Exc("ValueError", <<"Unsupported file format:", extension>>),
                       text |-> <<>>]

\* A faulty classifier: the assessment rule tested before the lesson-plan rule.
detect_content_type_swapped(content, filename) ==
    LET content_lower == LowerText(content)
    IN  IF AnyIn(content_lower, << <<"quiz">>, <<"test">>, <<"question">>, <<"answer">>,
                                   <<"multiple", "choice">> >>)
            THEN "assessment"
        ELSE IF AnyIn(content_lower, << <<"lesson", "plan">>, <<"objective">>, <<"activity">>,
                                        <<"assessment">> >>)
            THEN "lesson_plan"
        ELSE "educational_content"

\* detect_content_type (231-248)
detect_content_type(content, filename) ==
    LET content_lower == LowerText(content)
        filename_lower == LowerText(NameWords(filename))
    IN  IF AnyIn(content_lower, << <<"lesson", "plan">>, <<"objective">>, <<"activity">>,
                                   <<"assessment">> >>)
            THEN "lesson_plan"
        ELSE IF AnyIn(content_lower, << <<"quiz">>, <<"test">>, <<"question">>, <<"answer">>,
                                        <<"multiple", "choice">> >>)
            THEN "assessment"
        ELSE IF AnyIn(content_lower, << <<"assignment">>, <<"homework">>, <<"project">>,
                                        <<"student", "work">> >>)
            THEN "student_work"
        ELSE IF AnyIn(content_lower, << <<"parent">>, <<"guardian">>, <<"communication">>,
                                        <<"progress", "report">> >>)
            THEN "parent_communication"
        ELSE IF AnyIn(filename_lower, << <<"curriculum">>, <<"standard">>, <<"guideline">> >>)
            THEN "curriculum"
        ELSE "educational_content"

\* for pattern in patterns: if pattern in content_lower: ...; break
RECURSIVE FirstMatch(_, _, _)
FirstMatch(text, patterns, n) ==
    IF n > Len(patterns) THEN 0
    ELSE IF Contains(text, patterns[n]) THEN n
    ELSE FirstMatch(text, patterns, n + 1)

grade_patterns ==
    << <<"kindergarten">>, <<"1st", "grade">>, <<"2nd", "grade">>, <<"3rd", "grade">>,
       <<"4th", "grade">>, <<"5th", "grade">>, <<"grade", "1">>, <<"grade", "2">>,
       <<"grade", "3">>, <<"grade", "4">>, <<"grade", "5">>, <<"grade", "6">>,
       <<"elementary">>, <<"middle", "school">>, <<"high", "school">> >>

subjects ==
    << <<"mathematics">>, <<"math">>, <<"science">>, <<"biology">>, <<"chemistry">>,
       <<"physics">>, <<"english">>, <<"language", "arts">>, <<"reading">>, <<"writing">>,
       <<"history">>, <<"social", "studies">>, <<"geography">>, <<"art">>, <<"music">>,
       <<"physical", "education">> >>

topic_keywords ==
    << <<"fractions">>, <<"multiplication">>, <<"division">>, <<"photosynthesis">>,
       <<"solar", "system">>, <<"grammar">>, <<"vocabulary">>, <<"civil", "war">>,
       <<"democracy">>, <<"ecosystem">> >>

\* extract_educational_metadata (250-293); a phrase is stored as its words.
extract_educational_metadata(content, filename) ==
    LET content_lower == LowerText(content)
        g == FirstMatch(content_lower, grade_patterns, 1)
        s == FirstMatch(content_lower, subjects, 1)
        topics == SelectSeq(topic_keywords, LAMBDA keyword : Contains(content_lower, keyword))
    IN  (IF g > 0 THEN "grade_level" :> grade_patterns[g] ELSE EmptyDict) @@
        (IF s > 0 THEN "subject" :> subjects[s] ELSE EmptyDict) @@
        (IF topics # <<>> THEN "topics" :> topics ELSE EmptyDict)

\* A faulty process_file: its validation does not name the rejected suffix.
process_file_prepare_terse(path, exists, collection_name, custom_metadata, now) ==
    LET failed(e) == [exc |-> e, content |-> <<>>, collection_name |-> NoneStr,
                      metadata |-> EmptyDict]
        extracted == extract_text(path)
        content == extracted.text
        content_type == detect_content_type(content, path)
        metadata ==
            ("processor_version" :> "1.0") @@
            ("processed_at" :> now) @@
            ("content_type" :> content_type) @@
            extract_educational_metadata(content, path) @@
            get_file_info(path)
    IN  IF ~exists
            THEN failed(Exc("FileNotFoundError", <<"File not found:", path>>))
        ELSE IF Lower(Suffix(path)) \notin SUPPORTED_FORMATS
            THEN failed(Exc("ValueError", <<"Unsupported file format">>))
        ELSE IF extracted.exc # NoExc
            THEN failed(extracted.exc)
        ELSE IF content = <<>>
            THEN failed(Exc("ValueError", <<"No text content extracted from file">>))
        ELSE [exc |-> NoExc,
              content |-> content,
              collection_name |->
                  IF collection_name = NoneStr THEN content_type ELSE collection_name,
              metadata |->
                  IF custom_metadata # EmptyDict
                  THEN DictUpdate(metadata, custom_metadata) ELSE metadata]

\* process_file, lines 299-334: validation, extraction, classification and
\* the metadata merge, up to the call of add_document.
\* [exc, content, collection_name, metadata]
process_file_prepare(path, exists, collection_name, custom_metadata, now) ==
    LET failed(e) == [exc |-> e, content |-> <<>>, collection_name |-> NoneStr,
                      metadata |-> EmptyDict]
        extracted == extract_text(path)
        content == extracted.text
        content_type == detect_content_type(content, path)
        metadata ==
            ("processor_version" :> "1.0") @@
            ("processed_at" :> now) @@
            ("content_type" :> content_type) @@
            extract_educational_metadata(content, path) @@
            get_file_info(path)
    IN  IF ~exists
            THEN failed(Exc("FileNotFoundError", <<"File not found:", path>>))
        ELSE IF Lower(Suffix(path)) \notin SUPPORTED_FORMATS
            THEN failed(Exc("ValueError", <<"Unsupported file format:", Suffix(path)>>))
        ELSE IF extracted.exc # NoExc
            THEN failed(extracted.exc)
        ELSE IF content = <<>>
            THEN failed(Exc("ValueError", <<"No text content extracted from file">>))
        ELSE [exc |-> NoExc,
              content |-> content,
              collection_name |->
                  IF collection_name = NoneStr THEN content_type ELSE collection_name,
              metadata |->
                  IF custom_metadata # EmptyDict
                  THEN DictUpdate(metadata, custom_metadata) ELSE metadata]

\* ------------------------------------------------------------------------
\* EnhancedVectorDatabase (setup-vector-database.py)

\* initialize_database (69-86): the collections created at start-up.
DefaultCollections == {"educational_content", "lesson_plans", "student_work",
                       "assessments", "parent_communications"}

\* The configurations the database is built with: the DatabaseConfig
\* defaults and a small one that splits the model's short texts.
SmallChunkSize == 4
SmallChunkOverlap == 0
Configs == {[chunk_size |-> DefaultChunkSize, chunk_overlap |-> DefaultChunkOverlap],
            [chunk_size |-> SmallChunkSize, chunk_overlap |-> SmallChunkOverlap]}

\* Length of the vectors the embedding model behind ollama_url returns:
\* all-minilm gives 384, the default nomic-embed-text gives 768.
ServiceDims == {384, 768}

\* A request made without a timeout to a service that never answers.
ServiceReplies_untimed == {"pending"}

\* The answers of requests.post / raise_for_status / response.json():
\* a vector, or any exception (connection error, timeout, HTTP status,
\* missing key, or the timeout of 30 seconds).
ServiceReplies == {"embedding", "error"}

\* get_ollama_embedding (115-131).  A vector is kept as its origin, its
\* length and the text it embeds.
get_ollama_embedding(text, reply, dim_of_model) ==
    IF reply = "embedding"
    THEN [src |-> "ollama", dim |-> dim_of_model, text |-> text]
    ELSE [src |-> "fallback",
          dim |-> Len(create_fallback_embedding(text, FallbackDim)),
          text |-> text]

\* content[:100]: the model's texts are short, their leading PrefixWords
\* words stand for the first 100 characters.
PrefixWords == 2
Head100(content) == Slice(content, 0, PrefixWords)

\* A faulty document id: the hash of the leading text alone.
make_doc_id_untimed(content, now) == <<Head100(content), 0>>

\* hashlib.sha256(f"{content[:100]}{now}").hexdigest()[:16]  (line 173):
\* equal exactly when the hashed pair is equal (collisions of the
\* truncated digest itself are left out).
make_doc_id(content, now) == <<Head100(content), now>>

\* f"{doc_id}_chunk_{i}"
make_chunk_id(doc_id, i) == <<doc_id, i>>

\* chunk_meta = metadata.copy(); chunk_meta.update({...})  (195-201)
make_chunk_meta(metadata, doc_id, i, total, now) ==
    DictUpdate(metadata,
               ("document_id" :> doc_id) @@ ("chunk_index" :> i) @@
               ("total_chunks" :> total) @@ ("added_at" :> now))

\* chromadb Collection.add as add_document uses it (205-210).  A collection
\* is the sequence of its records in insertion order.  The call validates
\* before it writes: it raises, storing nothing, for an empty batch, for a
\* vector whose length differs from the collection's, and when the store
\* cannot write; otherwise it stores the batch in one write.  A record whose
\* id the collection already holds is skipped without an error.
CollectionDim(records, embeddings) ==
    IF records # <<>> THEN records[1].embedding.dim ELSE embeddings[1].dim

CollectionIds(records) == {records[n].id : n \in 1..Len(records)}

CollectionAdd(records, ids, embeddings, documents, metadatas, write_fails) ==
    IF ids = <<>>
        THEN [exc |-> Exc("ValueError", <<"Expected IDs to be a non-empty list">>),
              records |-> records]
    ELSE IF \E n \in 1..Len(embeddings) :
                embeddings[n].dim # CollectionDim(records, embeddings)
        THEN [exc |-> Exc("InvalidDimensionException", <<"Embedding dimension mismatch">>),
              records |-> records]
    ELSE IF write_fails
        THEN [exc |-> Exc("StorageError", <<"cannot write">>), records |-> records]
    ELSE LET batch == [n \in 1..Len(ids) |->
                          [id |-> ids[n], embedding |-> embeddings[n],
                           document |-> documents[n], metadata |-> metadatas[n]]]
         IN  [exc |-> NoExc,
              records |-> records \o
                  SelectSeq(batch, LAMBDA r : r.id \notin CollectionIds(records))]

\* Distance between two vectors: the vectors of the service are not known
\* to the model, which takes the number of words the two embedded texts do
\* not share.
Distance(a, b) ==
    Cardinality((Range(a.text) \ Range(b.text)) \cup (Range(b.text) \ Range(a.text)))

\* Positions of `records` ordered by distance to the query vector, ties in
\* insertion order.
RECURSIVE NearestFirst(_, _, _)
NearestFirst(records, query_embedding, left) ==
    IF left = {} THEN <<>>
    ELSE LET best == CHOOSE n \in left : \A m \in left :
                        \/ Distance(query_embedding, records[n].embedding)
                             < Distance(query_embedding, records[m].embedding)
                        \/ /\ Distance(query_embedding, records[n].embedding)
                                = Distance(query_embedding, records[m].embedding)
                           /\ n <= m
         IN  <<best>> \o NearestFirst(records, query_embedding, left \ {best})

\* chromadb Collection.query as search_documents uses it (230-234): raises
\* for n_results < 1 and for a query vector of another length than the
\* collection's; otherwise the n_results nearest records, nearest first.
CollectionQuery(records, query_embedding, n_results) ==
    IF n_results < 1
        THEN [exc |-> Exc("ValueError", <<"Number of requested results cannot be negative, or zero">>),
              hits |-> <<>>]
    ELSE IF records # <<>> /\ records[1].embedding.dim # query_embedding.dim
        THEN [exc |-> Exc("InvalidDimensionException", <<"Embedding dimension mismatch">>),
              hits |-> <<>>]
    ELSE LET order == NearestFirst(records, query_embedding, 1..Len(records))
         IN  [exc |-> NoExc,
              hits |-> [n \in 1..Min(n_results, Len(records)) |-> records[order[n]]]]

\* search_documents (219-241): [exc, hits]; every exception is logged and
\* re-raised.
search_documents(colls, collection_name, query, n_results, reply, dim_of_model) ==
    IF collection_name \notin DOMAIN colls
    THEN [exc |-> Exc("ValueError", <<"Collection", collection_name, "not found">>),
          hits |-> <<>>]
    ELSE CollectionQuery(colls[collection_name],
                         get_ollama_embedding(query, reply, dim_of_model),
                         n_results)

\* add_document, lines 167-182: the collection lookup, the document id and
\* the chunking.  [exc, doc_id, chunks]
add_document_begin(colls, cfg, collection_name, content, now) ==
    IF collection_name = DictObject
        THEN [exc |-> Exc("TypeError", <<"unhashable type:", "dict">>),
              doc_id |-> NoDocId, chunks |-> <<>>]
    ELSE IF collection_name \notin DOMAIN colls
        THEN [exc |-> Exc("ValueError", <<"Collection", collection_name, "not found">>),
              doc_id |-> NoDocId, chunks |-> <<>>]
    ELSE IF ChunkTextRaises(cfg.chunk_size, cfg.chunk_overlap)
        THEN [exc |-> Exc("ValueError", <<"range() arg 3 must not be zero">>),
              doc_id |-> NoDocId, chunks |-> <<>>]
    ELSE [exc |-> NoExc,
          doc_id |-> make_doc_id(content, now),
          chunks |-> chunk_text(content, cfg.chunk_size, cfg.chunk_overlap)]

\* ------------------------------------------------------------------------
\* The running program: request threads (the Flask server is threaded)
\* calling process_file and add_document on one shared database, a reader
\* calling search_documents, the wall clock and the upload area.


\* The request threads.
Threads == {"t1", "t2"}

\* ProcessingResult (file-processor.py:48-57)
ProcessingResult(success, file_path, content, metadata, document_id, error, chunks_created) ==
    [success |-> success, file_path |-> file_path, content |-> content,
     metadata |-> metadata, document_id |-> document_id, error |-> error,
     chunks_created |-> chunks_created]

NoResult == ProcessingResult(FALSE, "", <<>>, EmptyDict, NoDocId, <<>>, 0)

\* The frame of a thread's current (or last finished) call.
\*   pc: "idle" | "embed" (add_document's loop, 184-202)
\*       | "store" (collection.add, 205-210) | "move" (process_file 339-356)
\*   ret: "none" | "returned" | "raised" : how the last call ended
\*   args: the collection_name and the metadata the call was made with
\*   started: the datetime.now() that add_document put into the document id
IdleThread ==
    [pc |-> "idle", op |-> "none", args |-> <<>>, file_path |-> "",
     collection_name |-> NoneStr, started |-> 0,
     content |-> <<>>, metadata |-> EmptyDict, doc_id |-> NoDocId, chunks |-> <<>>,
     chunk_embeddings |-> <<>>, chunk_metadata |-> <<>>,
     ret |-> "none", exc |-> NoExc, returned |-> NoDocId, result |-> NoResult]

\* The search_documents call a step made, if it made one: its arguments and
\* its outcome.
NoSearch ==
    [called |-> FALSE, collection_name |-> NoneStr, n_results |-> 0,
     query_embedding |-> [src |-> "", dim |-> 0, text |-> <<>>],
     exc |-> NoExc, hits |-> <<>>]

VARIABLES
    config,         \* the DatabaseConfig the database was built with
    service_dim,    \* length of the vectors the embedding service returns
    collections,    \* self.collections: name -> the collection's records
    clock,          \* datetime.now()
    uploads,        \* the paths that exist in the upload area
    processed,      \* the files of the processed area: <<suffix, name>>
    th,             \* thread -> frame of its call
    search,         \* the search_documents call of the last step, if any
    ncalls          \* thread -> calls it has made so far

pipeVars == <<config, service_dim, collections, clock, uploads, processed, th,
              search, ncalls>>
vars == <<ck, fb, sideVars, pipeVars>>

\* A faulty except clause: `except ValueError`, every other exception
\* leaves process_file.
process_file_except_narrow(frame, e) ==
    IF e.type = "ValueError"
    THEN [frame EXCEPT !.pc = "idle", !.ret = "returned", !.exc = e,
                       !.result = ProcessingResult(FALSE, frame.file_path, <<>>, EmptyDict,
                                                   NoDocId, e.msg, 0)]
    ELSE [frame EXCEPT !.pc = "idle", !.ret = "raised", !.exc = e]

\* process_file's except clause (358-366): every Exception becomes a result.
process_file_except(frame, e) ==
    [frame EXCEPT !.pc = "idle", !.ret = "returned", !.exc = e,
                  !.result = ProcessingResult(FALSE, frame.file_path, <<>>, EmptyDict,
                                              NoDocId, e.msg, 0)]

\* add_document's except clause (215-217) logs and re-raises: to the caller
\* of add_document, or into process_file's except clause.
add_document_raise(frame, e) ==
    IF frame.op = "process_file"
    THEN process_file_except(frame, e)
    ELSE [frame EXCEPT !.pc = "idle", !.ret = "raised", !.exc = e]

\* From the call of add_document to the first chunk of its loop.
add_document_enter(frame, colls, cfg, now) ==
    LET beg == add_document_begin(colls, cfg, frame.collection_name, frame.content, now)
    IN  IF beg.exc # NoExc THEN add_document_raise(frame, beg.exc)
        ELSE [frame EXCEPT !.pc = IF beg.chunks = <<>> THEN "store" ELSE "embed",
                           !.doc_id = beg.doc_id, !.chunks = beg.chunks,
                           !.started = now]

\* A call takes time: the clock has moved on when it ends.  Calls under
\* way at the same time read the same clock value.
ClockAfter(frame) == IF frame.pc = "idle" THEN clock + 1 ELSE clock

\* process_file(path, collection_name, custom_metadata) from its call up to
\* the first embedding request of add_document, or to its return when it
\* ends before: the frame of the call.
process_file_enter(path, exists, collection_name, custom_metadata, colls, cfg, now) ==
    LET pre == process_file_prepare(path, exists, collection_name, custom_metadata, now)
        frame == [IdleThread EXCEPT !.op = "process_file", !.file_path = path,
                                    !.args = <<collection_name, custom_metadata>>,
                                    !.collection_name = pre.collection_name,
                                    !.content = pre.content, !.metadata = pre.metadata]
    IN  IF pre.exc # NoExc THEN process_file_except(frame, pre.exc)
        ELSE add_document_enter(frame, colls, cfg, now)

\* process_file(path, collection_name, custom_metadata) called by a thread.
ProcessFile(t, path, collection_name, custom_metadata) ==
    /\ th[t].pc = "idle"
    /\ ncalls[t] < MaxFiles
    /\ LET after == process_file_enter(path, path \in uploads, collection_name,
                                       custom_metadata, collections, config, clock)
       IN  /\ th' = [th EXCEPT ![t] = after]
           /\ clock' = ClockAfter(after)
    /\ ncalls' = [ncalls EXCEPT ![t] = @ + 1]
    /\ search' = NoSearch
    /\ UNCHANGED <<ck, fb, sideVars, config, service_dim, collections, uploads, processed>>

\* add_document(collection_name, content, metadata) called directly.
AddDocument(t, collection_name, content, metadata) ==
    /\ th[t].pc = "idle"
    /\ ncalls[t] < MaxCalls
    /\ LET frame == [IdleThread EXCEPT !.op = "add_document",
                                       !.args = <<collection_name, metadata>>,
                                       !.collection_name = collection_name,
                                       !.content = content, !.metadata = metadata]
           after == add_document_enter(frame, collections, config, clock)
       IN  /\ th' = [th EXCEPT ![t] = after]
           /\ clock' = ClockAfter(after)
    /\ ncalls' = [ncalls EXCEPT ![t] = @ + 1]
    /\ search' = NoSearch
    /\ UNCHANGED <<ck, fb, sideVars, config, service_dim, collections, uploads, processed>>

\* One turn of add_document's loop (184-202): embed chunk i, build its
\* metadata.  The turn is taken when requests.post has answered or given
\* up; while the request is pending the thread stays where it is.
EmbedChunk(t) ==
    /\ th[t].pc = "embed"
    /\ \E reply \in ServiceReplies :
        LET f == th[t]
            i == Len(f.chunk_embeddings)
            chunk == f.chunks[i + 1]
        IN  th' = IF reply = "pending" THEN th ELSE [th EXCEPT ![t] =
                [f EXCEPT !.chunk_embeddings =
                              Append(@, get_ollama_embedding(chunk, reply, service_dim)),
                          !.chunk_metadata =
                              Append(@, make_chunk_meta(f.metadata, f.doc_id, i,
                                                        Len(f.chunks), clock)),
                          !.pc = IF i + 1 = Len(f.chunks) THEN "store" ELSE "embed"]]
    /\ search' = NoSearch
    /\ UNCHANGED <<ck, fb, sideVars, config, service_dim, collections, clock, uploads, processed, ncalls>>

\* collection.add of the whole batch and add_document's return (205-213).
StoreChunks(t) ==
    /\ th[t].pc = "store"
    /\ \E write_fails \in BOOLEAN :
        LET f == th[t]
            chunk_ids == [n \in 1..Len(f.chunks) |-> make_chunk_id(f.doc_id, n - 1)]
            r == CollectionAdd(collections[f.collection_name], chunk_ids,
                               f.chunk_embeddings, f.chunks, f.chunk_metadata, write_fails)
            after == IF r.exc # NoExc THEN add_document_raise(f, r.exc)
                     ELSE IF f.op = "add_document"
                     THEN [f EXCEPT !.pc = "idle", !.ret = "returned", !.returned = f.doc_id]
                     ELSE [f EXCEPT !.pc = "move", !.returned = f.doc_id]
        IN  /\ collections' = [collections EXCEPT ![f.collection_name] = r.records]
            /\ th' = [th EXCEPT ![t] = after]
            /\ clock' = ClockAfter(after)
    /\ search' = NoSearch
    /\ UNCHANGED <<ck, fb, sideVars, config, service_dim, uploads, processed, ncalls>>

\* A faulty move: the file is copied and its source left in place.
rename_copying(file_path, ups, done, replaces) ==
    [exc |-> NoExc, uploads |-> ups,
     processed |-> done \cup {<<Suffix(file_path), file_path>>}]

\* Path.rename(processed_path) (line 342): raises when the source is gone;
\* onto an existing target it replaces it on POSIX and raises
\* FileExistsError on Windows.  [exc, uploads, processed]
rename(file_path, ups, done, replaces) ==
    LET processed_path == <<Suffix(file_path), file_path>>
    IN  IF file_path \notin ups
            THEN [exc |-> Exc("FileNotFoundError", <<"No such file:", file_path>>),
                  uploads |-> ups, processed |-> done]
        ELSE IF processed_path \in done /\ ~replaces
            THEN [exc |-> Exc("FileExistsError", <<"File exists:", file_path>>),
                  uploads |-> ups, processed |-> done]
        ELSE [exc |-> NoExc, uploads |-> ups \ {file_path},
              processed |-> done \cup {processed_path}]

\* process_file after add_document returned (339-356): move the file into
\* processed/<suffix>/ and build the result.
MoveFile(t) ==
    /\ th[t].pc = "move"
    /\ \E replaces \in BOOLEAN :
        LET f == th[t]
            r == rename(f.file_path, uploads, processed, replaces)
        IN  /\ uploads' = r.uploads
            /\ processed' = r.processed
            /\ th' = [th EXCEPT ![t] =
                    IF r.exc # NoExc THEN process_file_except(f, r.exc)
                    ELSE [f EXCEPT !.pc = "idle", !.ret = "returned",
                                   !.result = ProcessingResult(TRUE, f.file_path, f.content,
                                       f.metadata, f.returned, <<>>,
                                       Len(chunk_text(f.content, config.chunk_size,
                                                      config.chunk_overlap)))]]
    /\ clock' = clock + 1
    /\ search' = NoSearch
    /\ UNCHANGED <<ck, fb, sideVars, config, service_dim, collections, ncalls>>

\* search_documents(collection_name, query, n_results) by a reader, once
\* after every step of the writers.
Search(collection_name, query, n_results) ==
    /\ ~search.called
    /\ \E reply \in ServiceReplies :
        LET r == search_documents(collections, collection_name, query, n_results, reply,
                                  service_dim)
        IN  search' =
                [called |-> TRUE,
                 collection_name |-> collection_name, n_results |-> n_results,
                 query_embedding |-> get_ollama_embedding(query, reply, service_dim),
                 exc |-> r.exc, hits |-> r.hits]
    /\ UNCHANGED <<ck, fb, sideVars, config, service_dim, collections, clock, uploads, processed, th,
                   ncalls>>

\* A file is saved into the upload area (web-interface.py:275, 367).
Upload(path) ==
    /\ path \notin uploads
    /\ uploads' = uploads \cup {path}
    /\ search' = NoSearch
    /\ UNCHANGED <<ck, fb, sideVars, config, service_dim, collections, clock, processed, th, ncalls>>

\* ------------------------------------------------------------------------
\* process_directory (file-processor.py:368-382), run by thread "t1".

\* The order in which glob yields the entries of the directory.
GlobOrder == <<"blank.txt", "broken.pdf", "empty.yaml", "ghost.txt", "lesson.txt",
               "notes.txt", "Notes2.TXT", "virus.exe">>

\* directory_path.glob(pattern): the entries the directory holds.
glob(ups) == SelectSeq(GlobOrder, LAMBDA path : path \in ups)

\* A faulty filter: the suffix compared as it is written.
dir_matches_cased(path, ups) == path \in ups /\ Suffix(path) \in SUPPORTED_FORMATS

\* file_path.is_file() and file_path.suffix.lower() in self.SUPPORTED_FORMATS
dir_matches(path, ups) == path \in ups /\ Lower(Suffix(path)) \in SUPPORTED_FORMATS

\* The frame of the process_directory call.
\*   pc: "idle" | "loop" (at the head of the for loop) | "call" (inside
\*       process_file) | "returned" | "raised"
IdleDirectory == [pc |-> "idle", listed |-> <<>>, pending |-> <<>>, results |-> <<>>]

\* process_directory(upload_dir) is called: glob lists the directory.
ProcessDirectory ==
    /\ dir.pc = "idle"
    /\ th["t1"].pc = "idle"
    /\ dir' = [pc |-> "loop", listed |-> glob(uploads), pending |-> glob(uploads),
               results |-> <<>>]
    /\ search' = NoSearch
    /\ UNCHANGED <<ck, fb, rs, dc, rl, web, config, service_dim, collections, clock, uploads,
                   processed, th, ncalls>>

\* One turn of the for loop up to the call of process_file (377-379); a
\* process_file that ends at once has its result appended (380).
DirectoryNext ==
    /\ dir.pc = "loop"
    /\ dir.pending # <<>>
    /\ LET file_path == Head(dir.pending)
           after == process_file_enter(file_path, file_path \in uploads, NoneStr,
                                       EmptyDict, collections, config, clock)
       IN  IF dir_matches(file_path, uploads)
           THEN /\ th' = [th EXCEPT !["t1"] = after]
                /\ clock' = ClockAfter(after)
                /\ dir' = [dir EXCEPT
                            !.pending = Tail(@),
                            !.pc = IF after.pc # "idle" THEN "call"
                                   ELSE IF after.ret = "raised" THEN "raised"
                                   ELSE "loop",
                            !.results = IF after.pc = "idle" /\ after.ret = "returned"
                                        THEN Append(@, after.result) ELSE @]
           ELSE /\ dir' = [dir EXCEPT !.pending = Tail(@)]
                /\ UNCHANGED <<th, clock>>
    /\ search' = NoSearch
    /\ UNCHANGED <<ck, fb, rs, dc, rl, web, config, service_dim, collections, uploads,
                   processed, ncalls>>

\* process_file has ended: results.append(result) (380), or its exception
\* leaves process_directory.
DirectoryAppend ==
    /\ dir.pc = "call"
    /\ th["t1"].pc = "idle"
    /\ dir' = IF th["t1"].ret = "returned"
              THEN [dir EXCEPT !.pc = "loop", !.results = Append(@, th["t1"].result)]
              ELSE [dir EXCEPT !.pc = "raised"]
    /\ search' = NoSearch
    /\ UNCHANGED <<ck, fb, rs, dc, rl, web, pipeVars>>

\* return results (382)
DirectoryReturn ==
    /\ dir.pc = "loop"
    /\ dir.pending = <<>>
    /\ dir' = [dir EXCEPT !.pc = "returned"]
    /\ search' = NoSearch
    /\ UNCHANGED <<ck, fb, rs, dc, rl, web, pipeVars>>

\* ------------------------------------------------------------------------
\* RateLimiter (security_utils.py:145-246).  Time is counted in ticks:
\* RateWindow ticks stand for the 3600 seconds of the window and of the
\* cleanup interval, and the limits are scaled down with it.

RateWindow == 3                     \* 3600 seconds (lines 184, 216)
CleanupInterval == 3                \* self.cleanup_interval = 3600 (line 161)
UploadLimit == 1                    \* 'upload': 20 (line 156)
DefaultLimit == 2                   \* 'default': 200 (line 157)

\* self.limits (153-158), the endpoints the model calls
RateLimits == ("upload" :> UploadLimit) @@ ("default" :> DefaultLimit)

Clients == {"ip_a", "ip_b"}
Endpoints == {"upload", "status"}

\* Ticks that may pass between time.time() in is_allowed (204) and
\* time.time() in cleanup_old_requests (181).
ClockReads == {0, 1}

\* cleanup_old_requests (179-200): [requests, last_cleanup]
cleanup_old_requests(requests, last_cleanup, current_time) ==
    IF current_time - last_cleanup < CleanupInterval
    THEN [requests |-> requests, last_cleanup |-> last_cleanup]
    ELSE LET cutoff_time == current_time - RateWindow
             kept == [c \in DOMAIN requests |->
                        SelectSeq(requests[c], LAMBDA req : req[1] > cutoff_time)]
         IN  [requests |-> [c \in {k \in DOMAIN kept : kept[k] # <<>>} |-> kept[c]],
              last_cleanup |-> current_time]

\* is_allowed (202-246): current_time is read first, cleanup_old_requests
\* reads the clock again.  [allowed, info, requests, last_cleanup]
is_allowed(requests, last_cleanup, client_id, endpoint, current_time, cleanup_time) ==
    LET cleaned == cleanup_old_requests(requests, last_cleanup, cleanup_time)
        limit == IF endpoint \in DOMAIN RateLimits THEN RateLimits[endpoint]
                 ELSE RateLimits["default"]
        known == IF client_id \in DOMAIN cleaned.requests THEN cleaned.requests
                 ELSE (client_id :> <<>>) @@ cleaned.requests
        one_hour_ago == current_time - RateWindow
        recent_requests == SelectSeq(known[client_id],
                                     LAMBDA req : req[1] > one_hour_ago /\ req[2] = endpoint)
        oldest_request_time == CHOOSE t \in {recent_requests[n][1] : n \in 1..Len(recent_requests)} :
                                    \A n \in 1..Len(recent_requests) : t <= recent_requests[n][1]
    IN  IF Len(recent_requests) >= limit
        THEN [allowed |-> FALSE,
              info |-> ("error" :> "Rate limit exceeded") @@ ("limit" :> limit) @@
                       ("requests_made" :> Len(recent_requests)) @@
                       ("reset_time" :> oldest_request_time + RateWindow) @@
                       ("retry_after" :> oldest_request_time + RateWindow - current_time),
              requests |-> known, last_cleanup |-> cleaned.last_cleanup]
        ELSE [allowed |-> TRUE,
              info |-> ("limit" :> limit) @@
                       ("requests_made" :> Len(recent_requests) + 1) @@
                       ("remaining" :> limit - Len(recent_requests) - 1),
              requests |-> [known EXCEPT ![client_id] = Append(@, <<current_time, endpoint>>)],
              last_cleanup |-> cleaned.last_cleanup]

\* rate_limiter.is_allowed(client_id, endpoint), one call after the other;
\* the call is entered in the log with the time it read.
IsAllowed(client_id, endpoint) ==
    /\ Len(rl.log) < MaxRequests
    /\ \E elapsed \in ClockReads :
        LET r == is_allowed(rl.requests, rl.last_cleanup, client_id, endpoint,
                            rl.now, rl.now + elapsed)
        IN  rl' = [requests |-> r.requests, last_cleanup |-> r.last_cleanup,
                   now |-> rl.now + elapsed, calls |-> rl.calls,
                   log |-> Append(rl.log, [client_id |-> client_id, endpoint |-> endpoint,
                                           time |-> rl.now, allowed |-> r.allowed,
                                           info |-> r.info])]
    /\ UNCHANGED <<ck, fb, rs, dc, dir, web, pipeVars>>

\* is_allowed run by the request threads of the server on the one limiter
\* of the module (271), statement by statement; nothing in the class holds
\* a lock.  A thread's call: where it stands, its arguments, the
\* current_time it read and what it decided.
IdleCall == [pc |-> "idle", client_id |-> "", endpoint |-> "", current_time |-> 0,
             info |-> EmptyDict]

\* The calls under way.
CallsOpen == Cardinality({t \in Threads : rl.calls[t].pc # "idle"})

\* line 204: the call reads the clock.
IsAllowedBegin(t, client_id, endpoint) ==
    /\ rl.calls[t].pc = "idle"
    /\ Len(rl.log) + CallsOpen < MaxRequests
    /\ rl' = [rl EXCEPT !.calls[t] = [IdleCall EXCEPT !.pc = "count",
                                                      !.client_id = client_id,
                                                      !.endpoint = endpoint,
                                                      !.current_time = rl.now]]
    /\ UNCHANGED <<ck, fb, rs, dc, dir, web, pipeVars>>

\* lines 207-235: cleanup at the clock's present reading, the client's
\* entry, the count of the recent requests and the decision; a denied call
\* returns here.
IsAllowedCount(t) ==
    /\ rl.calls[t].pc = "count"
    /\ LET f == rl.calls[t]
           cleaned == cleanup_old_requests(rl.requests, rl.last_cleanup, rl.now)
           known == IF f.client_id \in DOMAIN cleaned.requests THEN cleaned.requests
                    ELSE (f.client_id :> <<>>) @@ cleaned.requests
           r == is_allowed(rl.requests, rl.last_cleanup, f.client_id, f.endpoint,
                           f.current_time, rl.now)
       IN  rl' = [rl EXCEPT
                    !.requests = known,
                    !.last_cleanup = cleaned.last_cleanup,
                    !.calls[t] = IF r.allowed THEN [f EXCEPT !.pc = "append", !.info = r.info]
                                 ELSE IdleCall,
                    !.log = IF r.allowed THEN @
                            ELSE Append(@, [client_id |-> f.client_id, endpoint |-> f.endpoint,
                                            time |-> f.current_time, allowed |-> FALSE,
                                            info |-> r.info])]
    /\ UNCHANGED <<ck, fb, rs, dc, dir, web, pipeVars>>

\* lines 238-246: self.requests[client_id].append(...) and the return; the
\* subscript raises KeyError when a cleanup has deleted the client's entry
\* since the call created it.
IsAllowedAppend(t) ==
    /\ rl.calls[t].pc = "append"
    /\ LET f == rl.calls[t]
           there == f.client_id \in DOMAIN rl.requests
       IN  rl' = [rl EXCEPT
                    !.requests = IF there
                                 THEN [@ EXCEPT ![f.client_id] =
                                            Append(@, <<f.current_time, f.endpoint>>)]
                                 ELSE @,
                    !.calls[t] = IdleCall,
                    !.log = Append(@, [client_id |-> f.client_id, endpoint |-> f.endpoint,
                                       time |-> f.current_time, allowed |-> there,
                                       info |-> IF there THEN f.info
                                                ELSE ("error" :> "KeyError")])]
    /\ UNCHANGED <<ck, fb, rs, dc, dir, web, pipeVars>>

\* Time passes between two calls.
RateTick ==
    /\ rl.now < MaxTime
    /\ rl' = [rl EXCEPT !.now = @ + 1]
    /\ UNCHANGED <<ck, fb, rs, dc, dir, web, pipeVars>>

\* ------------------------------------------------------------------------
\* POST /api/upload (web-interface.py:341-380), served by thread "t1".

\* A request: whether it has a 'file' part, the part's file name, the form.
NoRequest == [has_file |-> FALSE, filename |-> "", form |-> EmptyDict]
UploadNames == {"", "lesson.txt", "../notes.txt", "Notes2.TXT", "virus.exe", "blank.txt"}
UploadForms == {("title" :> <<"Notes">>) @@ ("subject" :> <<"art">>)}
UploadRequests ==
    {NoRequest} \cup
    [has_file : {TRUE}, filename : UploadNames, form : UploadForms]

\* werkzeug's secure_filename on the names the model uploads
secure_filename(filename) ==
    CASE filename = "../notes.txt" -> "notes.txt"
      [] OTHER -> filename

\* request.form.get(key, ''): the form's value, or the empty string
FormGet(form, key) == IF key \in DOMAIN form THEN form[key] ELSE <<>>

\* lines 351-358
upload_metadata(form, now) ==
    ("title" :> FormGet(form, "title")) @@
    ("subject" :> FormGet(form, "subject")) @@
    ("grade_level" :> FormGet(form, "grade_level")) @@
    ("content_type" :> FormGet(form, "content_type")) @@
    ("description" :> FormGet(form, "description")) @@
    ("uploaded_at" :> now)

\* jsonify of lines 372-377
upload_response(result) ==
    [success |-> result.success,
     document_id |-> IF result.success THEN result.document_id ELSE NoDocId,
     chunks_created |-> IF result.success THEN result.chunks_created ELSE 0,
     error |-> IF ~result.success THEN result.error ELSE <<>>]

\* api_upload up to the call of process_file (343-370): the early 400s, or
\* file.save and processor.process_file(file_path, metadata), whose second
\* parameter is collection_name.  `before` keeps the store as the request
\* found it.
ApiUpload(request) ==
    /\ web.pc \in {"idle", "responded"}
    /\ th["t1"].pc = "idle"
    /\ ncalls["t1"] < MaxFiles
    /\ ncalls' = [ncalls EXCEPT !["t1"] = @ + 1]
    /\ search' = NoSearch
    /\ IF ~request.has_file
       THEN /\ web' = [pc |-> "responded", request |-> request, status |-> 400,
                       body |-> [success |-> FALSE, error |-> <<"No file provided">>],
                       before |-> collections]
            /\ UNCHANGED <<th, clock, uploads>>
       ELSE IF request.filename = ""
       THEN /\ web' = [pc |-> "responded", request |-> request, status |-> 400,
                       body |-> [success |-> FALSE, error |-> <<"No file selected">>],
                       before |-> collections]
            /\ UNCHANGED <<th, clock, uploads>>
       ELSE LET file_path == secure_filename(request.filename)
                metadata == upload_metadata(request.form, clock)
                after == process_file_enter(file_path, TRUE, AsName(metadata), EmptyDict,
                                            collections, config, clock)
            IN  /\ uploads' = uploads \cup {file_path}
                /\ th' = [th EXCEPT !["t1"] = after]
                /\ clock' = ClockAfter(after)
                /\ web' = [pc |-> "called", request |-> request, status |-> 0,
                           body |-> EmptyDict, before |-> collections]
    /\ UNCHANGED <<ck, fb, rs, dc, rl, dir, config, service_dim, collections, processed>>

\* process_file has ended: the response of lines 372-377 with the default
\* status, or the 500 of the except clause (379-380).
ApiUploadReturn ==
    /\ web.pc = "called"
    /\ th["t1"].pc = "idle"
    /\ web' = IF th["t1"].ret = "returned"
              THEN [web EXCEPT !.pc = "responded", !.status = 200,
                               !.body = upload_response(th["t1"].result)]
              ELSE [web EXCEPT !.pc = "responded", !.status = 500,
                               !.body = [success |-> FALSE, error |-> th["t1"].exc.msg]]
    /\ search' = NoSearch
    /\ UNCHANGED <<ck, fb, rs, dc, rl, dir, pipeVars>>

\* ------------------------------------------------------------------------
\* No call of the classifier, the rate limiter, process_directory or the
\* web layer is under way.
IdleClassify == [pc |-> "idle", content |-> <<>>, filename |-> "notes.txt", result |-> ""]
IdleLimiter == [requests |-> EmptyDict, last_cleanup |-> 0, now |-> 0, log |-> <<>>,
                calls |-> [t \in Threads |-> IdleCall]]
IdleWeb == [pc |-> "idle", request |-> NoRequest, status |-> 0, body |-> EmptyDict,
            before |-> <<>>]

\* ------------------------------------------------------------------------
\* restore_database (294-327) on the directories of the file system.

\* A directory is the set of its files, a file its name and the database
\* it belongs to; NoDirectory is a path that does not exist.
NoDirectory == [there |-> FALSE, files |-> {}]
Directory(files) == [there |-> TRUE, files |-> files]
DatabaseFiles(origin) == {<<"chroma.sqlite3", origin>>, <<"segment.bin", origin>>}
MetadataFile == <<"backup_metadata.json", "backup">>

\* The backup_path arguments: no such path, a file, and the directories
\* backup_database writes (264-292), with the metadata file as written,
\* without the 'created_at' key, unparsable, or missing.
BackupPaths ==
    {[exists |-> FALSE, is_dir |-> FALSE, metadata |-> "none"],
     [exists |-> TRUE,  is_dir |-> FALSE, metadata |-> "none"]} \cup
    [exists : {TRUE}, is_dir : {TRUE},
     metadata : {"valid", "no_created_at", "malformed", "none"}]

BackupFiles(backup) ==
    DatabaseFiles("backup") \cup (IF backup.metadata = "none" THEN {} ELSE {MetadataFile})

\* lines 297-306: the existence check and the reading of the metadata.
restore_check(backup) ==
    IF ~backup.exists
        THEN Exc("ValueError", <<"Backup path does not exist:">>)
    ELSE IF backup.metadata = "malformed"
        THEN Exc("JSONDecodeError", <<"Expecting value">>)
    ELSE IF backup.metadata = "no_created_at"
        THEN Exc("KeyError", <<"created_at">>)
    ELSE NoExc

\* What a failing shutil.rmtree can leave of a directory: it raises at the
\* first entry it cannot remove, with any of the others already gone.
rmtree_leaves(files) == (SUBSET files) \ {{}}

\* What a shutil.copytree of a directory can leave behind when it fails:
\* the target directory with some of the files, not all.
copytree_leaves(files) == (SUBSET files) \ {files}

\* The restore call: its position, its argument, the exception it raised,
\* the database directory now and when the call began.
IdleRestore == [pc |-> "idle", backup |-> [exists |-> FALSE, is_dir |-> FALSE,
                                           metadata |-> "none"],
                exc |-> NoExc, db |-> Directory(DatabaseFiles("current")),
                before |-> Directory(DatabaseFiles("current"))]

\* restore_database(backup_path) up to the removal (294-307).
RestoreDatabase(backup) ==
    /\ rs.pc = "idle"
    /\ LET e == restore_check(backup)
       IN  rs' = [rs EXCEPT !.backup = backup, !.before = rs.db, !.exc = e,
                            !.pc = IF e = NoExc THEN "remove" ELSE "raised"]
    /\ UNCHANGED <<ck, fb, dc, rl, dir, web, pipeVars>>

\* lines 309-310: shutil.rmtree(db_path) when the path exists, which
\* succeeds or raises.
RestoreRemove ==
    /\ rs.pc = "remove"
    /\ \/ rs' = [rs EXCEPT !.db = NoDirectory, !.pc = "copy"]
       \/ /\ rs.db.there
          /\ \E left \in rmtree_leaves(rs.db.files) :
                rs' = [rs EXCEPT !.db = Directory(left), !.pc = "raised",
                                 !.exc = Exc("PermissionError", <<"Permission denied">>)]
    /\ UNCHANGED <<ck, fb, dc, rl, dir, web, pipeVars>>

\* line 313: shutil.copytree(backup_path, db_path).
RestoreCopy ==
    /\ rs.pc = "copy"
    /\ IF ~rs.backup.is_dir
       THEN rs' = [rs EXCEPT !.pc = "raised",
                             !.exc = Exc("NotADirectoryError", <<"Not a directory">>)]
       ELSE \/ rs' = [rs EXCEPT !.db = Directory(BackupFiles(rs.backup)), !.pc = "unlink"]
            \/ \E left \in copytree_leaves(BackupFiles(rs.backup)) :
                    rs' = [rs EXCEPT !.db = Directory(left), !.pc = "raised",
                                     !.exc = Exc("Error", <<"No space left on device">>)]
    /\ UNCHANGED <<ck, fb, dc, rl, dir, web, pipeVars>>

\* lines 316-321: the metadata file is removed from the restored database
\* and initialize_database opens it, or raises.
RestoreInitialize ==
    /\ rs.pc = "unlink"
    /\ \E opened \in BOOLEAN :
        rs' = [rs EXCEPT !.db = Directory(@.files \ {MetadataFile}),
                         !.pc = IF opened THEN "done" ELSE "raised",
                         !.exc = IF opened THEN NoExc
                                 ELSE Exc("Exception", <<"Failed to initialize database">>)]
    /\ UNCHANGED <<ck, fb, dc, rl, dir, web, pipeVars>>

\* The caller goes on after a restore that returned or raised.
RestoreReturn ==
    /\ rs.pc \in {"done", "raised"}
    /\ rs' = [rs EXCEPT !.pc = "idle", !.exc = NoExc]
    /\ UNCHANGED <<ck, fb, dc, rl, dir, web, pipeVars>>

SideIdle ==
    /\ rs = IdleRestore
    /\ dc = IdleClassify
    /\ rl = IdleLimiter
    /\ dir = IdleDirectory
    /\ web = IdleWeb

\* ------------------------------------------------------------------------
\* The states the program starts in.

IdleChunk == [pc |-> "idle", words |-> <<>>, chunk_size |-> 1, chunk_overlap |-> 0,
              chunks |-> <<>>]
IdleFallback == [pc |-> "idle", text |-> <<>>, dim |-> 0, embedding |-> <<>>]

\* What an earlier run of the program left in the persistent store and in
\* the processed area: nothing, or notes.txt ingested at time 0 with its
\* vectors from the service or from the fallback.
PriorRuns == {"none", "ollama", "fallback"}

PriorRecords(cfg, dim_of_model, prior) ==
    LET pre == process_file_prepare("notes.txt", TRUE, NoneStr, EmptyDict, 0)
        beg == add_document_begin([c \in DefaultCollections |-> <<>>], cfg,
                                  pre.collection_name, pre.content, 0)
        n == Len(beg.chunks)
        r == CollectionAdd(<<>>,
                [i \in 1..n |-> make_chunk_id(beg.doc_id, i - 1)],
                [i \in 1..n |-> get_ollama_embedding(beg.chunks[i],
                                    IF prior = "ollama" THEN "embedding" ELSE "error",
                                    dim_of_model)],
                beg.chunks,
                [i \in 1..n |-> make_chunk_meta(pre.metadata, beg.doc_id, i - 1, n, 0)],
                FALSE)
    IN  IF prior = "none" THEN <<>> ELSE r.records

\* The arguments process_file is called with besides the path.
CallArgs == {[collection_name |-> NoneStr, custom_metadata |-> EmptyDict],
             [collection_name |-> "educational_content",
              custom_metadata |-> ("subject" :> <<"art">>)]}
DirectTexts == {FileWords("notes.txt"), FileWords("Notes2.TXT"), <<"fractions">>}
DirectCollections == {"educational_content", "archive"}
Queries == {<<"fractions">>}

\* An idle pipeline: main() (1079-1129) has built the database and the
\* processor, no call is under way.
PipelineInit ==
    /\ config \in Configs
    /\ service_dim \in ServiceDims
    /\ \E prior \in PriorRuns :
        /\ collections = [c \in DefaultCollections |->
                            IF c = "educational_content"
                            THEN PriorRecords(config, service_dim, prior) ELSE <<>>]
        /\ processed = IF prior = "none" THEN {} ELSE {<<".txt", "notes.txt">>}
    /\ clock = 1
    /\ uploads = Paths \ {"ghost.txt"}
    /\ th = [t \in Threads |-> IdleThread]
    /\ search = NoSearch
    /\ ncalls = [t \in Threads |-> 0]

\* A freshly built database on the default configuration.
PipelineFresh ==
    /\ config = [chunk_size |-> DefaultChunkSize, chunk_overlap |-> DefaultChunkOverlap]
    /\ service_dim = 768
    /\ collections = [c \in DefaultCollections |-> <<>>]
    /\ processed = {}
    /\ clock = 1
    /\ uploads = {}
    /\ th = [t \in Threads |-> IdleThread]
    /\ search = NoSearch
    /\ ncalls = [t \in Threads |-> 0]

Init ==
    /\ ck = IdleChunk
    /\ fb = IdleFallback
    /\ SideIdle
    /\ PipelineInit

\* ------------------------------------------------------------------------
\* Request threads calling add_document on the shared database while a
\* reader searches it.
Next ==
    \/ \E t \in Threads, c \in DirectCollections, text \in DirectTexts :
            AddDocument(t, c, text, ("title" :> <<"Notes">>))
    \/ \E t \in Threads : EmbedChunk(t)
    \/ \E t \in Threads : StoreChunks(t)
    \/ \E c \in DirectCollections, q \in Queries, k \in 1..MaxResults : Search(c, q, k)

Spec == Init /\ [][Next]_vars

\* ------------------------------------------------------------------------
\* One request at a time: process_file calls of a single thread.
NextIngest ==
    \/ \E path \in Paths, a \in CallArgs :
            ProcessFile("t1", path, a.collection_name, a.custom_metadata)
    \/ EmbedChunk("t1")
    \/ StoreChunks("t1")
    \/ MoveFile("t1")
    \/ \E path \in Paths : Upload(path)

SpecIngest == Init /\ [][NextIngest]_vars

\* ------------------------------------------------------------------------
\* chunk_text alone, on every short word sequence and small configuration.
Words == {"a", "b"}
WordSeqs == UNION {[1..n -> Words] : n \in 0..MaxWords}

\* Texts about as long as the stride of the DatabaseConfig defaults: the
\* stride less one, the stride, and one word more.
LongTexts ==
    {[i \in 1..n |-> "a"] : n \in {DefaultChunkSize - DefaultChunkOverlap - 1,
                                  DefaultChunkSize - DefaultChunkOverlap,
                                  DefaultChunkSize - DefaultChunkOverlap + 1}}

InitChunk ==
    /\ \/ \E words \in WordSeqs, chunk_size \in 1..MaxChunkSize,
             chunk_overlap \in 0..MaxChunkSize :
                ck = [pc |-> "called", words |-> words, chunk_size |-> chunk_size,
                      chunk_overlap |-> chunk_overlap, chunks |-> <<>>]
       \/ \E words \in LongTexts :
                ck = [pc |-> "called", words |-> words, chunk_size |-> DefaultChunkSize,
                      chunk_overlap |-> DefaultChunkOverlap, chunks |-> <<>>]
    /\ fb = IdleFallback
    /\ SideIdle
    /\ PipelineFresh

ChunkText ==
    /\ ck.pc = "called"
    /\ ck' = IF ChunkTextRaises(ck.chunk_size, ck.chunk_overlap)
             THEN [ck EXCEPT !.pc = "raised"]
             ELSE [ck EXCEPT !.pc = "returned",
                             !.chunks = chunk_text(ck.words, ck.chunk_size,
                                                   ck.chunk_overlap)]
    /\ UNCHANGED <<fb, sideVars, pipeVars>>

NextChunk == ChunkText

SpecChunk == InitChunk /\ [][NextChunk]_vars

\* ------------------------------------------------------------------------
\* create_fallback_embedding alone, statement by statement.
FallbackTexts == {<<>>, <<"a">>, <<"fractions">>, <<"Notes">>, <<"Notes", "on">>}

InitFallback ==
    /\ \E text \in FallbackTexts, dim \in 0..MaxDim :
            fb = [pc |-> "called", text |-> text, dim |-> dim, embedding |-> <<>>]
    /\ ck = IdleChunk
    /\ SideIdle
    /\ PipelineFresh

\* lines 135-144: the digest and the values taken from it
FallbackHash ==
    /\ fb.pc = "called"
    /\ fb' = [fb EXCEPT !.pc = "pad", !.embedding = HashValues(md5(fb.text))]
    /\ UNCHANGED <<ck, sideVars, pipeVars>>

\* lines 147-148: one turn of the while loop
FallbackPad ==
    /\ fb.pc = "pad"
    /\ PadGuard(fb.embedding, fb.dim)
    /\ fb' = [fb EXCEPT !.embedding = PadStep(fb.embedding, fb.dim)]
    /\ UNCHANGED <<ck, sideVars, pipeVars>>

\* line 150: the loop is left and the vector returned
FallbackReturn ==
    /\ fb.pc = "pad"
    /\ ~PadGuard(fb.embedding, fb.dim)
    /\ fb' = [fb EXCEPT !.pc = "returned", !.embedding = Truncate(fb.embedding, fb.dim)]
    /\ UNCHANGED <<ck, sideVars, pipeVars>>

NextFallback == FallbackHash \/ FallbackPad \/ FallbackReturn

\* The call runs on its own thread of control: it keeps taking steps.
SpecFallback == InitFallback /\ [][NextFallback]_vars /\ WF_vars(NextFallback)

\* ------------------------------------------------------------------------
\* process_directory over the upload area, one thread.
NextDirectory ==
    \/ ProcessDirectory
    \/ DirectoryNext
    \/ EmbedChunk("t1")
    \/ StoreChunks("t1")
    \/ MoveFile("t1")
    \/ DirectoryAppend
    \/ DirectoryReturn

SpecDirectory == Init /\ [][NextDirectory]_vars

\* ------------------------------------------------------------------------
\* detect_content_type alone, on every short text over words that trigger
\* the rules and on file names with and without a curriculum keyword.
ClassifyWords == {"Lesson", "plan", "objective", "quiz", "homework", "parent", "notes"}
ClassifyTexts == UNION {[1..n -> ClassifyWords] : n \in 0..MaxClassifyWords}
ClassifyNames == {"notes.txt", "curriculum.txt", "lesson.txt"}

InitClassify ==
    /\ \E content \in ClassifyTexts, filename \in ClassifyNames :
            dc = [pc |-> "called", content |-> content, filename |-> filename,
                  result |-> ""]
    /\ ck = IdleChunk
    /\ fb = IdleFallback
    /\ rl = IdleLimiter
    /\ rs = IdleRestore
    /\ dir = IdleDirectory
    /\ web = IdleWeb
    /\ PipelineFresh

Classify ==
    /\ dc.pc = "called"
    /\ dc' = [dc EXCEPT !.pc = "returned",
                        !.result = detect_content_type(dc.content, dc.filename)]
    /\ UNCHANGED <<ck, fb, rs, rl, dir, web, pipeVars>>

NextClassify == Classify

SpecClassify == InitClassify /\ [][NextClassify]_vars

\* ------------------------------------------------------------------------
\* One thread making process_file and add_document calls; a call under way
\* keeps running: the thread is scheduled, the request to the embedding
\* service ends within its timeout, the store and the file system answer.
NextLive ==
    \/ \E path \in Paths, a \in CallArgs :
            ProcessFile("t1", path, a.collection_name, a.custom_metadata)
    \/ \E c \in DirectCollections, text \in DirectTexts :
            AddDocument("t1", c, text, ("title" :> <<"Notes">>))
    \/ EmbedChunk("t1")
    \/ StoreChunks("t1")
    \/ MoveFile("t1")

SpecLive ==
    /\ Init
    /\ [][NextLive]_vars
    /\ WF_vars(EmbedChunk("t1"))
    /\ WF_vars(StoreChunks("t1"))
    /\ WF_vars(MoveFile("t1"))

\* ------------------------------------------------------------------------
\* The rate limiter alone: is_allowed calls of two clients on two endpoints,
\* one after the other, while time passes.
InitRate ==
    /\ ck = IdleChunk
    /\ fb = IdleFallback
    /\ SideIdle
    /\ PipelineFresh

NextRate ==
    \/ \E client_id \in Clients, endpoint \in Endpoints : IsAllowed(client_id, endpoint)
    \/ RateTick

SpecRate == InitRate /\ [][NextRate]_vars

\* The limiter under the threaded server: calls of several request threads
\* for one client interleaved.
NextRateThreads ==
    \/ \E t \in Threads, endpoint \in Endpoints :
            IsAllowedBegin(t, "ip_a", endpoint)
    \/ \E t \in Threads : IsAllowedCount(t)
    \/ \E t \in Threads : IsAllowedAppend(t)
    \/ RateTick

SpecRateThreads == InitRate /\ [][NextRateThreads]_vars

\* ------------------------------------------------------------------------
\* The web application and the command line on one store: upload requests
\* and process_file calls, one at a time.
NextWeb ==
    \/ \E request \in UploadRequests : ApiUpload(request)
    \/ ApiUploadReturn
    \/ \E path \in Paths, a \in CallArgs :
            ProcessFile("t1", path, a.collection_name, a.custom_metadata)
    \/ EmbedChunk("t1")
    \/ StoreChunks("t1")
    \/ MoveFile("t1")

SpecWeb == Init /\ [][NextWeb]_vars

\* ------------------------------------------------------------------------
\* Request threads calling add_document on a freshly built database.
InitWriters ==
    /\ ck = IdleChunk
    /\ fb = IdleFallback
    /\ SideIdle
    /\ config = [chunk_size |-> DefaultChunkSize, chunk_overlap |-> DefaultChunkOverlap]
    /\ service_dim = FallbackDim      \* all-minilm: vectors as long as the fallback's
    /\ collections = [c \in DefaultCollections |-> <<>>]
    /\ processed = {}
    /\ clock = 1
    /\ uploads = {}
    /\ th = [t \in Threads |-> IdleThread]
    /\ search = NoSearch
    /\ ncalls = [t \in Threads |-> 0]

NextWriters ==
    \/ \E t \in Threads, text \in DirectTexts :
            AddDocument(t, "educational_content", text, ("title" :> <<"Notes">>))
    \/ \E t \in Threads : EmbedChunk(t)
    \/ \E t \in Threads : StoreChunks(t)

SpecWriters == InitWriters /\ [][NextWriters]_vars

\* ------------------------------------------------------------------------
\* Restores of the database from backups, one after the other.
NextRestore ==
    \/ \E backup \in BackupPaths : RestoreDatabase(backup)
    \/ RestoreRemove
    \/ RestoreCopy
    \/ RestoreInitialize
    \/ RestoreReturn

SpecRestore == InitRate /\ [][NextRestore]_vars

\* ------------------------------------------------------------------------
\* Properties.

\* A call that has ended, by a return or by an exception.
Finished(f) == f.pc = "idle" /\ f.ret # "none"

\* The chunks of a call's document that its collection holds: chunk n is
\* held when the record under the chunk's id carries the chunk's text.
StoredChunksOf(f) ==
    IF f.collection_name \notin DOMAIN collections THEN {}
    ELSE LET records == collections[f.collection_name]
         IN  {n \in 1..Len(f.chunks) :
                \E m \in 1..Len(records) :
                    /\ records[m].id = make_chunk_id(f.doc_id, n - 1)
                    /\ records[m].document = f.chunks[n]}

\* C1: add_document is all-or-nothing: once a call has ended, by returning
\* a document id or by raising, its collection holds every chunk of the
\* call's document or none of them.
AddDocumentAllOrNothing ==
    \A t \in Threads :
        (th[t].op = "add_document" /\ Finished(th[t])) =>
            Cardinality(StoredChunksOf(th[t])) \in {0, Len(th[t].chunks)}

\* The hits of the last search that carry a document id.
HitsOf(doc_id) ==
    {n \in 1..Len(search.hits) : search.hits[n].metadata["document_id"] = doc_id}

ProcessFileNeverRaises ==
    \A t \in Threads :
        (th[t].op = "process_file" /\ th[t].pc = "idle") =>
            /\ th[t].ret = "returned"
            /\ th[t].result.file_path = th[t].file_path
            /\ th[t].exc # NoExc =>
                    (~th[t].result.success /\ th[t].result.error # <<>>)
            /\ th[t].exc = NoExc => th[t].result.success

\* A process_file call that returned after its file move failed.
ProcessFileMoveFailed ==
    /\ th["t1"].op = "process_file"
    /\ th["t1"].ret = "returned"
    /\ th["t1"].exc.type = "FileExistsError"
    /\ th["t1"].returned # NoDocId

\* The paths whose extension is outside the supported set.
UnsupportedPaths == {"virus.exe"}

\* C4: process_file on a path with an unsupported extension returns a
\* result with success = False whose error mentions the extension, and
\* leaves every collection as it was.
UnsupportedFormatRejected ==
    [][\A path \in UnsupportedPaths, a \in CallArgs :
          ProcessFile("t1", path, a.collection_name, a.custom_metadata) =>
              /\ th'["t1"].pc = "idle"
              /\ th'["t1"].ret = "returned"
              /\ ~th'["t1"].result.success
              /\ Contains(th'["t1"].result.error, <<Suffix(path)>>)
              /\ collections' = collections]_vars

\* process_file has returned from a call on virus.exe.
UnsupportedFormatSeen ==
    /\ th["t1"].op = "process_file"
    /\ th["t1"].file_path \in UnsupportedPaths
    /\ th["t1"].ret = "returned"
    /\ th["t1"].exc.type = "ValueError"

\* C5: process_file on the lesson-plan text file, with no collection given
\* and the default configuration, returns success = True with category
\* lesson_plan, grade level "4th grade", subject "mathematics", topics
\* ["fractions"] and a document id, the document being stored in the
\* collection the category names.
LessonPlanIngested ==
    \A t \in Threads :
        (/\ th[t].op = "process_file"
         /\ Finished(th[t])
         /\ th[t].file_path = "lesson.txt"
         /\ th[t].args[1] = NoneStr
         /\ th[t].exc.type # "FileNotFoundError"
         /\ config = [chunk_size |-> DefaultChunkSize,
                      chunk_overlap |-> DefaultChunkOverlap]) =>
            /\ th[t].result.success
            /\ th[t].result.metadata["content_type"] = "lesson_plan"
            /\ th[t].result.metadata["grade_level"] = <<"4th", "grade">>
            /\ th[t].result.metadata["subject"] = <<"mathematics">>
            /\ th[t].result.metadata["topics"] = << <<"fractions">> >>
            /\ th[t].result.document_id # NoDocId
            /\ th[t].result.metadata["content_type"] \in DOMAIN collections
            /\ \E m \in 1..Len(collections[th[t].result.metadata["content_type"]]) :
                    collections[th[t].result.metadata["content_type"]][m]
                        .metadata["document_id"] = th[t].result.document_id

\* The embedding service failed during a call: a vector of the call is the
\* fallback's.
ServiceFailedIn(f) ==
    \E n \in 1..Len(f.chunk_embeddings) : f.chunk_embeddings[n].src = "fallback"

\* The failures that have a cause of their own: a missing collection, a
\* zero stride, a store that cannot write.
OwnCause(e) == e.type \in {"ValueError", "StorageError"}

\* C6: a failure of the embedding service by itself never makes
\* add_document or search_documents fail: a call during which the service
\* failed fails only for a cause of its own.
ServiceFailureRecovered ==
    /\ \A t \in Threads :
          (Finished(th[t]) /\ ServiceFailedIn(th[t]) /\ th[t].exc # NoExc) =>
              OwnCause(th[t].exc)
    /\ (search.called /\ search.query_embedding.src = "fallback" /\ search.exc # NoExc) =>
              OwnCause(search.exc)

\* The lengths of the vectors a collection holds.
StoredDims(c) == {collections[c][m].embedding.dim : m \in 1..Len(collections[c])}

\* C7: the vectors of get_ollama_embedding have one fixed length, from the
\* service or from the fallback: the vectors of one batch, those of the
\* collection it goes to, and the query vector of a search on a collection
\* all have the same length.
EmbeddingsSameDimension ==
    /\ \A t \in Threads :
          th[t].collection_name \in DOMAIN collections =>
              Cardinality(StoredDims(th[t].collection_name) \cup
                          {th[t].chunk_embeddings[n].dim :
                              n \in 1..Len(th[t].chunk_embeddings)}) <= 1
    /\ (search.called /\ search.collection_name \in DOMAIN collections) =>
          Cardinality(StoredDims(search.collection_name) \cup
                      {search.query_embedding.dim}) <= 1

\* The lifecycle of one fallback vector has ended.
FallbackReturned == fb.pc = "returned"

\* C8: create_fallback_embedding(text, dim) terminates and returns exactly
\* dim entries, for every text (the empty one too) and every dim >= 0.
FallbackReturnsDimEntries ==
    /\ <>FallbackReturned
    /\ [](FallbackReturned => Len(fb.embedding) = fb.dim)

\* The empty text, padded to a dim above 4 that is no multiple of 4.
FallbackPaddedEmptyText ==
    /\ FallbackReturned
    /\ fb.text = <<>>
    /\ fb.dim > 4
    /\ fb.dim % 4 # 0

\* C9: for a non-empty word sequence and 0 <= chunk_overlap < chunk_size,
\* every word of the input is in a chunk, and chunk k (counted from 0) holds
\* the words from position k * (chunk_size - chunk_overlap) on, in order.
ChunkCoverageAndOrder ==
    (/\ ck.pc \in {"returned", "raised"}
     /\ ck.words # <<>>
     /\ 0 <= ck.chunk_overlap
     /\ ck.chunk_overlap < ck.chunk_size) =>
        /\ ck.pc = "returned"
        /\ \A i \in 1..Len(ck.words) :
              \E k \in 1..Len(ck.chunks) :
                  \E j \in 1..Len(ck.chunks[k]) :
                      /\ (k - 1) * (ck.chunk_size - ck.chunk_overlap) + j = i
                      /\ ck.chunks[k][j] = ck.words[i]
        /\ \A k \in 1..Len(ck.chunks) :
              /\ Len(ck.chunks[k]) > 0
              /\ \A j \in 1..Len(ck.chunks[k]) :
                    ck.chunks[k][j] =
                        ck.words[(k - 1) * (ck.chunk_size - ck.chunk_overlap) + j]

\* Overlapping chunks of a text that needs several.
ChunkedWithOverlap ==
    /\ ck.pc = "returned"
    /\ ck.chunk_overlap > 0
    /\ ck.chunk_overlap < ck.chunk_size
    /\ Len(ck.chunks) >= 3

\* Position of a hit in its collection.
PositionOf(records, hit) == CHOOSE m \in 1..Len(records) : records[m].id = hit.id

\* C10: search_documents(collection, query, k) returns the min(k, stored)
\* chunks nearest to the query vector, nearest first, ties in insertion
\* order.
SearchReturnsNearest ==
    (search.called /\ search.collection_name \in DOMAIN collections) =>
        LET records == collections[search.collection_name]
            q == search.query_embedding
            hits == search.hits
        IN  /\ search.exc = NoExc
            /\ Len(hits) = Min(search.n_results, Len(records))
            /\ \A n \in 1..Len(hits) : \E m \in 1..Len(records) : records[m] = hits[n]
            /\ \A n \in 1..Len(hits) : \A o \in 1..Len(hits) :
                  n < o =>
                    \/ Distance(q, hits[n].embedding) < Distance(q, hits[o].embedding)
                    \/ /\ Distance(q, hits[n].embedding) = Distance(q, hits[o].embedding)
                       /\ PositionOf(records, hits[n]) < PositionOf(records, hits[o])
            /\ \A m \in 1..Len(records) :
                  (\A n \in 1..Len(hits) : hits[n] # records[m]) =>
                      \A n \in 1..Len(hits) :
                          Distance(q, hits[n].embedding)
                              <= Distance(q, records[m].embedding)


\* The supported-extension files the directory held when it was listed, in
\* the order of the listing.
DirectoryMatching ==
    SelectSeq(dir.listed, LAMBDA path : Lower(Suffix(path)) \in SUPPORTED_FORMATS)

\* C11: process_directory returns exactly one ProcessingResult per
\* supported-extension file found in the directory, in the order the files
\* were found, and the failure of one file never aborts the batch: no
\* exception leaves the loop, and the files after a failed one have their
\* results in the list.
DirectoryOneResultPerFile ==
    /\ dir.pc # "raised"
    /\ \A i \in 1..Len(dir.results) :
            /\ i <= Len(DirectoryMatching)
            /\ dir.results[i].file_path = DirectoryMatching[i]
    /\ dir.pc = "returned" => Len(dir.results) = Len(DirectoryMatching)

\* process_directory has returned a list in which a failed file is followed
\* by an ingested one and the file with the upper-case suffix has a result.
DirectoryContinuedPastFailure ==
    /\ dir.pc = "returned"
    /\ \E i, j \in 1..Len(dir.results) :
            /\ i < j
            /\ ~dir.results[i].success
            /\ dir.results[j].success
    /\ \E i \in 1..Len(dir.results) : dir.results[i].file_path = "Notes2.TXT"

\* The files whose bytes hold no visible text.
TextlessPaths == {path \in Paths : FileWords(path) = <<>>}

\* C12: when the text of a file is empty or only whitespace, whatever its
\* supported format, process_file ends in a failed ProcessingResult without
\* ever calling add_document, and nothing is stored.
EmptyTextRejected ==
    \A t \in Threads :
        (th[t].op = "process_file" /\ th[t].file_path \in TextlessPaths) =>
            /\ th[t].pc = "idle"
            /\ th[t].doc_id = NoDocId
            /\ ~th[t].result.success

\* The categories and the keywords of the rules, in the order of priority.
ContentTypes == {"lesson_plan", "assessment", "student_work", "parent_communication",
                 "curriculum", "educational_content"}
LessonPlanKeywords == << <<"lesson", "plan">>, <<"objective">>, <<"activity">>,
                         <<"assessment">> >>
AssessmentKeywords == << <<"quiz">>, <<"test">>, <<"question">>, <<"answer">>,
                         <<"multiple", "choice">> >>
StudentWorkKeywords == << <<"assignment">>, <<"homework">>, <<"project">>,
                          <<"student", "work">> >>
ParentKeywords == << <<"parent">>, <<"guardian">>, <<"communication">>,
                     <<"progress", "report">> >>
CurriculumKeywords == << <<"curriculum">>, <<"standard">>, <<"guideline">> >>

\* C13: detect_content_type returns one of the six categories for every
\* text and file name, and the first rule that matches decides, in the
\* order lesson plan, assessment, student work, parent communication,
\* curriculum by file name, generic; a text with a lesson-plan keyword and
\* an assessment keyword is a lesson plan.
ClassifiedByPriority ==
    dc.pc = "returned" =>
        LET text == LowerText(dc.content)
            name == LowerText(NameWords(dc.filename))
            lesson == AnyIn(text, LessonPlanKeywords)
            assess == AnyIn(text, AssessmentKeywords)
            work == AnyIn(text, StudentWorkKeywords)
            parent == AnyIn(text, ParentKeywords)
            curr == AnyIn(name, CurriculumKeywords)
        IN  /\ dc.result \in ContentTypes
            /\ lesson => dc.result = "lesson_plan"
            /\ (~lesson /\ assess) => dc.result = "assessment"
            /\ (~lesson /\ ~assess /\ work) => dc.result = "student_work"
            /\ (~lesson /\ ~assess /\ ~work /\ parent) =>
                    dc.result = "parent_communication"
            /\ (~lesson /\ ~assess /\ ~work /\ ~parent /\ curr) =>
                    dc.result = "curriculum"
            /\ (~lesson /\ ~assess /\ ~work /\ ~parent /\ ~curr) =>
                    dc.result = "educational_content"

\* A text with a lesson-plan keyword and an assessment keyword has been
\* classified.
ClassifiedLessonPlanWithQuiz ==
    /\ dc.pc = "returned"
    /\ AnyIn(LowerText(dc.content), LessonPlanKeywords)
    /\ AnyIn(LowerText(dc.content), AssessmentKeywords)
    /\ dc.result = "lesson_plan"

\* The file and classification metadata of a file, without the time of
\* processing.
FileMetadata(path) ==
    ("processor_version" :> "1.0") @@
    ("content_type" :> detect_content_type(FileWords(path), path)) @@
    extract_educational_metadata(FileWords(path), path) @@
    get_file_info(path)

\* The metadata of the records a process_file call has stored.
PersistedBy(f) ==
    IF f.collection_name \notin DOMAIN collections THEN {}
    ELSE LET records == collections[f.collection_name]
         IN  {records[m].metadata : m \in {n \in 1..Len(records) :
                    /\ records[n].metadata["document_id"] = f.returned
                    /\ records[n].metadata["filename"] = f.file_path
                    /\ records[n].metadata["added_at"] >= f.metadata["processed_at"]}}

\* C14: in the metadata process_file has persisted, a key that the caller's
\* overrides and the file or classification metadata both have carries the
\* caller's value, and a key of the file or classification metadata that
\* the overrides lack keeps its value.
OverridesWin ==
    \A t \in Threads :
        (th[t].op = "process_file" /\ th[t].returned # NoDocId) =>
            LET own == FileMetadata(th[t].file_path)
                overrides == th[t].args[2]
            IN  \A meta \in PersistedBy(th[t]) :
                    \A key \in DOMAIN own :
                        /\ key \in DOMAIN meta
                        /\ meta[key] = IF key \in DOMAIN overrides
                                       THEN overrides[key] ELSE own[key]

\* lesson.txt, whose text names the subject mathematics, has been stored
\* by a call whose overrides name the subject art.
OverriddenSubjectStored ==
    /\ th["t1"].op = "process_file"
    /\ th["t1"].returned # NoDocId
    /\ th["t1"].file_path = "lesson.txt"
    /\ FileMetadata("lesson.txt")["subject"] = <<"mathematics">>
    /\ th["t1"].args[2] = ("subject" :> <<"art">>)
    /\ \E meta \in PersistedBy(th["t1"]) : meta["subject"] = <<"art">>

\* C15: the content hash of the source file deduplicates: no collection
\* holds the same chunk of files with identical bytes twice, whether the
\* bytes came under the same file name or under another.
NoSecondCopyOfSameBytes ==
    \A c \in DOMAIN collections :
        \A m, n \in 1..Len(collections[c]) :
            (/\ m # n
             /\ "file_hash" \in DOMAIN collections[c][m].metadata
             /\ "file_hash" \in DOMAIN collections[c][n].metadata
             /\ collections[c][m].metadata["file_hash"] = collections[c][n].metadata["file_hash"])
                => collections[c][m].metadata["chunk_index"]
                        # collections[c][n].metadata["chunk_index"]

\* C16: the source file leaves its path only in the move that follows a
\* successful add_document, and then lies in the processed area under the
\* sub-directory of its extension; a process_file call that ends in a
\* failure leaves the upload area as it was, and a call that ends in success
\* leaves its file no longer at its original path.
FileMovedOnlyAfterStored ==
    [][/\ \A path \in uploads \ uploads' :
            /\ th["t1"].pc = "move"
            /\ th["t1"].returned # NoDocId
            /\ th["t1"].file_path = path
            /\ th'["t1"].result.success
            /\ <<Suffix(path), path>> \in processed'
       /\ (th["t1"] # th'["t1"] /\ th'["t1"].op = "process_file" /\ th'["t1"].pc = "idle") =>
            IF th'["t1"].result.success
            THEN /\ th'["t1"].file_path \notin uploads'
                 /\ th'["t1"].returned # NoDocId
            ELSE uploads' = uploads]_vars

\* A call has ended in success with its file in the processed area, the
\* file's upper-case extension naming the sub-directory.
FileMovedAfterSuccess ==
    /\ th["t1"].op = "process_file"
    /\ th["t1"].pc = "idle"
    /\ th["t1"].result.success
    /\ th["t1"].file_path = "Notes2.TXT"
    /\ "Notes2.TXT" \notin uploads
    /\ <<".TXT", "Notes2.TXT">> \in processed

\* C17: no ingestion blocks for ever: under fairness every process_file
\* call and every add_document call that has started ends, by returning or
\* by raising.
EveryCallEnds ==
    (th["t1"].pc # "idle") ~> (th["t1"].pc = "idle" /\ th["t1"].ret # "none")

\* A process_file call has ended after the embedding service failed for a
\* chunk and the fallback vector was used.
CallEndedOnFallback ==
    /\ th["t1"].op = "process_file"
    /\ th["t1"].pc = "idle"
    /\ th["t1"].ret = "returned"
    /\ \E n \in 1..Len(th["t1"].chunk_embeddings) :
            th["t1"].chunk_embeddings[n].src = "fallback"

\* The limit of an endpoint: its own, or the default one.
LimitOf(endpoint) == IF endpoint = "upload" THEN UploadLimit ELSE DefaultLimit

\* The calls logged before call n that were allowed for the pair of call n
\* less than a window before it.
AllowedBefore(n) ==
    {m \in 1..(n - 1) :
        /\ rl.log[m].allowed
        /\ rl.log[m].client_id = rl.log[n].client_id
        /\ rl.log[m].endpoint = rl.log[n].endpoint
        /\ rl.log[n].time - rl.log[m].time < RateWindow}

\* C18: the limiter counts per client and endpoint: a call is allowed
\* exactly when fewer than the endpoint's limit of the pair's calls were
\* allowed within the window before it, so that no window holds more than
\* the limit; a call over the limit is denied with 'Rate limit exceeded';
\* the calls of other clients and to other endpoints do not count, and an
\* endpoint without a limit of its own has the default limit.
RateLimitPerClientAndEndpoint ==
    \A n \in 1..Len(rl.log) :
        /\ rl.log[n].allowed <=>
                Cardinality(AllowedBefore(n)) < LimitOf(rl.log[n].endpoint)
        /\ ~rl.log[n].allowed => rl.log[n].info["error"] = "Rate limit exceeded"
        /\ rl.log[n].info["limit"] = LimitOf(rl.log[n].endpoint)

\* The upload request being answered names a file, and the name's
\* extension is supported or not.
UploadAnswered == web.pc = "responded" /\ web.request.has_file /\ web.request.filename # ""
UploadSupported == Lower(Suffix(secure_filename(web.request.filename))) \in SUPPORTED_FORMATS

\* C19: POST /api/upload with a file whose extension is not supported is
\* answered with status 400 and an 'error' in the body, and the vector
\* store is left as it was.
UnsupportedUploadRejected ==
    (UploadAnswered /\ ~UploadSupported) =>
        /\ web.status = 400
        /\ "error" \in DOMAIN web.body
        /\ web.body.error # <<>>
        /\ collections = web.before

\* C20: POST /api/upload with a file of a supported format that has text
\* is answered with status 200 and success = true; the form's metadata are
\* in the persisted metadata of the document, and the response carries the
\* document's id and the number of its chunks.
ValidUploadStored ==
    (/\ UploadAnswered
     /\ UploadSupported
     /\ FileWords(secure_filename(web.request.filename)) # <<>>) =>
        /\ web.status = 200
        /\ web.body.success
        /\ web.body.document_id # NoDocId
        /\ web.body.chunks_created > 0
        /\ \E c \in DOMAIN collections : \E n \in 1..Len(collections[c]) :
                /\ collections[c][n].metadata["document_id"] = web.body.document_id
                /\ \A key \in DOMAIN web.request.form :
                        /\ key \in DOMAIN collections[c][n].metadata
                        /\ collections[c][n].metadata[key] = web.request.form[key]


\* C21: with chunk_size 1000 and chunk_overlap 200, and generally for
\* 0 <= chunk_overlap < chunk_size, chunk_text returns exactly one chunk for
\* every text of at least one and fewer than chunk_size words.
ShortTextOneChunk ==
    (/\ ck.pc \in {"returned", "raised"}
     /\ 0 <= ck.chunk_overlap
     /\ ck.chunk_overlap < ck.chunk_size
     /\ 1 <= Len(ck.words)
     /\ Len(ck.words) < ck.chunk_size) =>
        /\ ck.pc = "returned"
        /\ Len(ck.chunks) = 1

\* C21 as amended: for 0 <= chunk_overlap < chunk_size, chunk_text returns
\* exactly one chunk, the whole text, for every text of at least one and at
\* most chunk_size - chunk_overlap words.
TextWithinStrideOneChunk ==
    (/\ ck.pc \in {"returned", "raised"}
     /\ 0 <= ck.chunk_overlap
     /\ ck.chunk_overlap < ck.chunk_size
     /\ 1 <= Len(ck.words)
     /\ Len(ck.words) <= ck.chunk_size - ck.chunk_overlap) =>
        /\ ck.pc = "returned"
        /\ ck.chunks = <<ck.words>>

\* A text as long as the stride of the default configuration has been
\* chunked into one chunk.
DefaultStrideTextChunked ==
    /\ ck.pc = "returned"
    /\ ck.chunk_size = DefaultChunkSize
    /\ ck.chunk_overlap = DefaultChunkOverlap
    /\ Len(ck.words) = DefaultChunkSize - DefaultChunkOverlap
    /\ Len(ck.chunks) = 1

\* The k-th (from 0) 4-byte big-endian word of a text's MD5 digest, as its
\* four base-256 digits.
DigestWord(text, k) == SubSeq(md5(text), 4 * k + 1, 4 * k + 4)

\* C22: the fallback vector is a function of the text alone: entry i
\* (counted from 0) of create_fallback_embedding(text, dim) is the
\* (i mod 4)-th 4-byte big-endian word of the text's digest over 2^32, for
\* every i < dim, so every entry lies in [0, 1) and the same text always
\* gives the same vector.
FallbackCyclesDigestWords ==
    fb.pc = "returned" =>
        /\ Len(fb.embedding) = fb.dim
        /\ \A i \in 0..(fb.dim - 1) :
              /\ fb.embedding[i + 1] = DigestWord(fb.text, i % 4)
              /\ Len(fb.embedding[i + 1]) = 4
              /\ \A b \in 1..4 : fb.embedding[i + 1][b] \in 0..255

\* A vector longer than twice the digest's four words has been returned for
\* a text with words.
FallbackWrappedTwice ==
    /\ fb.pc = "returned"
    /\ fb.dim > 8
    /\ fb.text # <<>>
    /\ fb.embedding[9] = DigestWord(fb.text, 0)

\* The records of a client and an endpoint that are less than a window old
\* at time t.
RecentOf(requests, client_id, endpoint, t) ==
    IF client_id \notin DOMAIN requests THEN <<>>
    ELSE SelectSeq(requests[client_id],
                   LAMBDA req : req[1] > t - RateWindow /\ req[2] = endpoint)

\* The time of the oldest of some records.
OldestOf(records) ==
    CHOOSE t \in {records[n][1] : n \in 1..Len(records)} :
        \A n \in 1..Len(records) : t <= records[n][1]

\* C23: an allowed is_allowed call appends exactly one record for its
\* client and endpoint and reports requests_made, which counts the call
\* itself, and remaining adding up to the limit; a denied call leaves the
\* recent history of every client and endpoint as it was, reports the number
\* of the pair's recent requests as requests_made, and a positive
\* retry_after that ends when the oldest of them leaves the window.
RateAccounting ==
    [][Len(rl'.log) = Len(rl.log) + 1 =>
        LET e == rl'.log[Len(rl'.log)]
            before == RecentOf(rl.requests, e.client_id, e.endpoint, e.time)
            after == RecentOf(rl'.requests, e.client_id, e.endpoint, e.time)
        IN  IF e.allowed
            THEN /\ after = Append(before, <<e.time, e.endpoint>>)
                 /\ e.info["requests_made"] = Len(before) + 1
                 /\ e.info["requests_made"] + e.info["remaining"] = e.info["limit"]
            ELSE /\ \A c \in Clients, ep \in Endpoints :
                        RecentOf(rl'.requests, c, ep, e.time)
                            = RecentOf(rl.requests, c, ep, e.time)
                 /\ e.info["requests_made"] = Len(before)
                 /\ e.info["retry_after"] > 0
                 /\ e.info["retry_after"] = OldestOf(before) + RateWindow - e.time]_vars

\* The records a client has in a request history.
RecordsOf(requests, client_id) ==
    IF client_id \in DOMAIN requests THEN requests[client_id] ELSE <<>>

\* C24: the cleanup that an is_allowed call runs removes, when at least
\* cleanup_interval has passed since the last one, every record older than
\* the window and every client left without records, and keeps every newer
\* record; when less has passed it changes nothing; and it never changes
\* whether the call is allowed: the call is allowed exactly when the history
\* as it was before the cleanup holds fewer recent requests of the pair
\* than the limit.
CleanupKeepsOutcome ==
    [][Len(rl'.log) = Len(rl.log) + 1 =>
        LET e == rl'.log[Len(rl'.log)]
            cleanup_time == rl'.now
            due == cleanup_time - rl.last_cleanup >= CleanupInterval
            newer(records) == SelectSeq(records,
                                        LAMBDA req : req[1] > cleanup_time - RateWindow)
            kept(c) == IF e.allowed /\ c = e.client_id
                       THEN SubSeq(rl'.requests[c], 1, Len(rl'.requests[c]) - 1)
                       ELSE RecordsOf(rl'.requests, c)
        IN  /\ due =>
                /\ rl'.last_cleanup = cleanup_time
                /\ \A c \in Clients :
                      /\ newer(kept(c)) = newer(RecordsOf(rl.requests, c))
                      /\ \A n \in 1..Len(kept(c)) :
                            kept(c)[n][1] >= cleanup_time - RateWindow
                      /\ (kept(c) = <<>> /\ c # e.client_id) => c \notin DOMAIN rl'.requests
            /\ ~due =>
                /\ rl'.last_cleanup = rl.last_cleanup
                /\ \A c \in Clients : kept(c) = RecordsOf(rl.requests, c)
            /\ e.allowed <=>
                    Len(RecentOf(rl.requests, e.client_id, e.endpoint, e.time))
                        < LimitOf(e.endpoint)]_vars

\* The records of a collection that carry a document id, in stored order.
StoredUnder(collection_name, doc_id) ==
    SelectSeq(collections[collection_name],
              LAMBDA r : r.metadata["document_id"] = doc_id)

\* C25: for every document whose add_document returned, the chunks stored
\* under its document id carry the chunk_index values 0..total_chunks-1 in
\* document order, total_chunks of each of them is the number of chunks
\* stored for the document, and chunks_created of a successful
\* ProcessingResult is that number.
ChunkCountsConsistent ==
    \A t \in Threads :
        (th[t].pc \in {"idle", "move"} /\ th[t].returned # NoDocId) =>
            LET stored == StoredUnder(th[t].collection_name, th[t].returned)
            IN  /\ stored # <<>>
                /\ \A n \in 1..Len(stored) :
                      /\ stored[n].metadata["chunk_index"] = n - 1
                      /\ stored[n].metadata["total_chunks"] = Len(stored)
                /\ th[t].result.success => th[t].result.chunks_created = Len(stored)

\* C26: two add_document calls get the same document id, and with it
\* clashing chunk ids, exactly when their texts share the first 100
\* characters and the calls read the same timestamp; the records of a
\* collection have distinct ids.
DocIdsClashOnlyOnSameHeadAndInstant ==
    /\ \A t, u \in Threads :
          (t # u /\ th[t].doc_id # NoDocId /\ th[u].doc_id # NoDocId) =>
              (th[t].doc_id = th[u].doc_id <=>
                  /\ Slice(th[t].content, 0, PrefixWords) = Slice(th[u].content, 0, PrefixWords)
                  /\ th[t].started = th[u].started)
    /\ \A c \in DOMAIN collections : \A m, n \in 1..Len(collections[c]) :
          collections[c][m].id = collections[c][n].id => m = n

\* Two calls with texts that differ after a common head have taken the
\* same document id, and two calls with that head at different times have
\* not.
DocIdsClashed ==
    /\ th["t1"].doc_id # NoDocId
    /\ th["t1"].doc_id = th["t2"].doc_id
    /\ th["t1"].content # th["t2"].content

\* C27: a process_file call that returned success=False has left the
\* vector store as it was: no collection holds a chunk under the document
\* id the failed call generated, whichever step failed, the file move after
\* add_document included.
FailedCallStoredNothing ==
    \A t \in Threads :
        (/\ th[t].op = "process_file"
         /\ Finished(th[t])
         /\ ~th[t].result.success
         /\ th[t].doc_id # NoDocId) =>
            \A c \in DOMAIN collections : StoredUnder(c, th[t].doc_id) = <<>>

\* C28: the category that process_file derives for a file it was given no
\* collection for is the name of a collection of the database, and such a
\* call never ends with the error "Collection ... not found".
CategoryNamesCollection ==
    \A t \in Threads :
        (/\ th[t].op = "process_file"
         /\ th[t].args[1] = NoneStr
         /\ th[t].collection_name # NoneStr) =>
            /\ th[t].collection_name \in DOMAIN collections
            /\ ~(th[t].exc.type = "ValueError" /\ Head(th[t].exc.msg) = "Collection")

\* C29: with the request threads calling is_allowed concurrently, the calls
\* allowed for one client and endpoint within a window never exceed the
\* endpoint's limit: every allowed call had fewer than the limit of allowed
\* calls of its pair within the window.
ConcurrentCallsWithinLimit ==
    \A n \in 1..Len(rl.log) :
        rl.log[n].allowed =>
            Cardinality({m \in (1..Len(rl.log)) \ {n} :
                            /\ rl.log[m].allowed
                            /\ rl.log[m].client_id = rl.log[n].client_id
                            /\ rl.log[m].endpoint = rl.log[n].endpoint
                            /\ rl.log[m].time <= rl.log[n].time
                            /\ rl.log[n].time - rl.log[m].time < RateWindow})
                < LimitOf(rl.log[n].endpoint)

\* C30: restore_database is failure-safe: a call that raised, at whichever
\* step, has left the database directory as it was when the call began.
RestoreFailureSafe ==
    (rs.pc = "raised" /\ rs.exc # NoExc) => rs.db = rs.before

====
